---- MODULE Spec2Model ----
(***************************************************************************)
(* PiAware e-Paper status display (src/piaware-epaper.py).                 *)
(*                                                                         *)
(* Two threads of control share the display, the GPIO pins and the         *)
(* process:                                                                *)
(*   "main"  runs PiAware.process(), and the OS signal handlers, which     *)
(*           Python runs in the main thread on top of whatever the main    *)
(*           thread was executing;                                         *)
(*   "cb"    is the GPIO event thread, which runs                          *)
(*           PiAware.__process_interrupt for every pin event.              *)
(* Init is the state after PiAware.setup() and the `cycle = 1` of          *)
(* process().                                                              *)
(***************************************************************************)
EXTENDS Integers, Sequences, FiniteSets, TLC

VARIABLES
    proc,        \* "running" | "exit0" (sys.exit(0)) | "crashed" (uncaught exception) | "killed" (default signal action)
    crash,       \* the exception that ended the process, and where it was raised from
    cycle,       \* the local `cycle` of PiAware.process()
    completed,   \* history: number of refresh() calls of the main loop that returned
    i,           \* the local `i` of the sleep loop of PiAware.process()
    th,          \* per thread: the frame it is executing
    gpio,        \* "claimed" | "released" (GPIO.cleanup())
    epd,         \* what the e-Paper shows: "boot" | "0x00" | "0xFF" | "image"
    sinkBroken,  \* TRUE while every access to the e-Paper raises IOError
    lastSig,     \* the last OS signal delivered to the process
    sd_left,     \* history: how the last __shutdown that ended was left: "no" | "exit" (sys.exit(0)) | "raised"
    env,         \* the environment variables read at import: None when unset
    boot,        \* where the main thread is, seen from the fetches: "setup" | "receiver" | "process" | "shutdown"
    dl,          \* the fetch in progress: the Helpers.download call and its caller's r.json()
    receiver_position,  \* PiAware.receiver_position: unset until setup() stores the origin
    scan,        \* what the consumer of the last aircraft fetch did, until the next fetch begins: the list it went through, its count, the notifications it sent
    nt,          \* a scan's loop over its list, with the send_slack_notification call in progress, the count so far and the status it returns
    fc,          \* a get_aircrafts call: its arguments, what the fetch gave, what it returned
    tally,       \* history over the refreshes: how often the tracked aircraft was scanned squawking, and alerted
    ranges       \* the "Min Range" and "Max Range" texts of the image refresh() is drawing, in tenths of a kilometre

\* the display, the pins, the signals and the two threads
mvars == <<cycle, completed, i, th, gpio, epd, sinkBroken, lastSig, sd_left>>

\* the configuration and the fetch in progress
fvars == <<env, boot, dl, receiver_position, scan, tally, nt, fc, ranges>>

vars == <<proc, crash, mvars, fvars>>

----------------------------------------------------------------------------
(* Bounds of the model *)

MaxCycle == 3    \* the main loop starts cycles 1..MaxCycle
MaxRefresh == 2  \* the fetch-level model completes at most MaxRefresh refreshes

(* Program constants *)

sleepy_display == 300
ths == 120
TelemetryLoss == 666

sleepy_updates == sleepy_display \div 10

Threads == {"main", "cb"}
Pins == {5, 6, 13, 19}

\* the channels the GPIO library may hand to the callback: the four pins of
\* setup() and, for the handler's else branch, one other pin
Channels == Pins \cup {26}
Signals == {"SIGHUP", "SIGINT", "SIGQUIT", "SIGTERM"}

\* the signals setup() installs __process_shutdown_signal for
Registered == {"SIGINT", "SIGQUIT", "SIGTERM"}

EMERGENCY_SQUAWK == {"7500", "7600", "7700"}

\* the keys of the two watchlists
ICAO_OF_SPECIAL_INTEREST == {"3EA12C", "3F5D91", "3E854F"}
REGISTRATION_OF_SPECIAL_INTEREST == {}

----------------------------------------------------------------------------
(* JSON bodies: a dict is a record, a missing key is a missing field *)

EmptyJson == [k \in {} |-> 0]

AcEmergency == [hex |-> "3c6444", flight |-> "DLH123  ", squawk |-> "7700",
                seen |-> 1, seen_pos |-> 2, lat |-> 51, lon |-> 7]
AcNormal    == [hex |-> "4b1805", squawk |-> "7000", seen |-> 120]
AcMlat      == [hex |-> "3e854f", seen |-> 3, seen_pos |-> 120,
                mlat |-> [lat |-> 1], lat |-> 52, lon |-> 7]

\* squawking an emergency code without any position, and with a position
\* older than the threshold of 120 s
AcHijackNoPos == [hex |-> "a1b2c3", squawk |-> "7500", seen |-> 5]
AcRadioStale  == [hex |-> "4ca2d1", flight |-> "RYR4TK  ", squawk |-> "7600",
                  seen |-> 1, seen_pos |-> 121, lat |-> 50, lon |-> 6]

\* on the ICAO watchlist: with a fresh position age but only half a position,
\* and with a position older than the threshold
AcVipNoLon == [hex |-> "3f5d91", flight |-> "GAF902  ", squawk |-> "1000",
               seen |-> 1, seen_pos |-> 4, lat |-> 50]
AcVipStale == [hex |-> "3ea12c", seen |-> 2, seen_pos |-> 130, lat |-> 49, lon |-> 8]

AircraftBodies ==
    { EmptyJson,
      [now |-> 1, aircraft |-> << >>],
      [now |-> 1, aircraft |-> <<AcEmergency, AcNormal>>],
      [now |-> 1, aircraft |-> <<AcNormal, AcMlat>>],
      [now |-> 1, aircraft |-> <<AcHijackNoPos, AcNormal>>],
      [now |-> 1, aircraft |-> <<AcRadioStale, AcEmergency>>],
      [now |-> 1, aircraft |-> <<AcVipNoLon, AcVipStale>>] }

\* what Helpers.download returns: False, or a response carrying a body
DownloadFailed == [ok |-> FALSE]
Downloaded(body) == [ok |-> TRUE, json |-> body]

AircraftResponses == {DownloadFailed} \cup {Downloaded(b) : b \in AircraftBodies}

StatusFull ==
    [system_uptime |-> 4711, time |-> 1000,
     gps |-> [message |-> "GPS 3D fix"],
     radio |-> [message |-> "Received Mode S data recently"],
     piaware |-> [message |-> "PiAware is running"]]
StatusNoGps ==
    [system_uptime |-> 4711, time |-> 1000,
     radio |-> [message |-> "Received Mode S data recently"],
     piaware |-> [message |-> "PiAware is running"]]

\* without the two system fields, and without the radio and piaware entries
StatusNoSystem ==
    [gps |-> [message |-> "GPS 3D fix"],
     radio |-> [message |-> "Received Mode S data recently"],
     piaware |-> [message |-> "PiAware is running"]]
StatusGpsOnly ==
    [system_uptime |-> 4711, time |-> 1000, gps |-> [message |-> "GPS 3D fix"]]

\* with an entry that carries a status colour but no message
StatusGpsNoMessage     == [StatusFull EXCEPT !.gps = [status |-> "red"]]
StatusRadioNoMessage   == [StatusFull EXCEPT !.radio = [status |-> "amber"]]
StatusPiawareNoMessage == [StatusFull EXCEPT !.piaware = [status |-> "red"]]

StatusResponses ==
    { DownloadFailed, Downloaded(StatusFull), Downloaded(StatusNoGps),
      Downloaded(StatusNoSystem), Downloaded(StatusGpsOnly),
      Downloaded(StatusGpsNoMessage), Downloaded(StatusRadioNoMessage),
      Downloaded(StatusPiawareNoMessage) }

Fr24Responses ==
    { DownloadFailed,
      Downloaded([feed_status |-> "connected", feed_current_mode |-> "UDP"]),
      Downloaded([feed_status |-> "disconnected"]) }

----------------------------------------------------------------------------
(* Pure helpers *)

\* `r.json() if r is not False else {}` of get_status, get_aircrafts, get_fr24_status
json_or_empty(r) == IF r.ok THEN r.json ELSE EmptyJson

ucfirst(string) ==
    CASE string = "disconnected" -> "Disconnected"
      [] string = "connected"    -> "Connected"
      [] OTHER                   -> string

\* str.upper and Helpers.trim on the strings of the model
upper(string) ==
    CASE string = "3c6444" -> "3C6444"
      [] string = "4b1805" -> "4B1805"
      [] string = "3e854f" -> "3E854F"
      [] string = "a1b2c3" -> "A1B2C3"
      [] string = "4ca2d1" -> "4CA2D1"
      [] string = "3f5d91" -> "3F5D91"
      [] string = "3ea12c" -> "3EA12C"
      [] OTHER             -> string

trim(string) ==
    CASE string = "DLH123  " -> "DLH123"
      [] string = "RYR4TK  " -> "RYR4TK"
      [] string = "GAF902  " -> "GAF902"
      [] OTHER               -> string

\* variant: only the general emergency code is looked for
contains_any_first(needle, haystack) == upper(needle) = "7700"

\* Helpers.contains_any: any(element.upper() == needle.upper() ...)
contains_any(needle, haystack) ==
    \E element \in haystack : upper(element) = upper(needle)

\* the filter loop of get_aircrafts
\* variant: an age equal to the threshold is too old
keep_strict(aircraft, pos, mode, threshold) ==
    IF mode = "adsb"
    THEN IF pos
         THEN "seen_pos" \in DOMAIN aircraft /\ aircraft.seen_pos < threshold
         ELSE "seen" \in DOMAIN aircraft /\ aircraft.seen < threshold
    ELSE "mlat" \in DOMAIN aircraft /\ "lat" \in DOMAIN aircraft.mlat

keep(aircraft, pos, mode, threshold) ==
    IF mode = "adsb"
    THEN IF pos
         THEN "seen_pos" \in DOMAIN aircraft /\ aircraft.seen_pos <= threshold
         ELSE "seen" \in DOMAIN aircraft /\ aircraft.seen <= threshold
    ELSE "mlat" \in DOMAIN aircraft /\ "lat" \in DOMAIN aircraft.mlat

\* variant: the raw dict holds the filtered aircraft only
get_aircrafts_filtered(r, pos, mode, threshold, raw) ==
    LET json == json_or_empty(r) IN
    IF "aircraft" \in DOMAIN json
    THEN LET res == SelectSeq(json.aircraft, LAMBDA a : keep(a, pos, mode, threshold))
         IN IF raw THEN [type |-> "dict", val |-> [json EXCEPT !.aircraft = res]]
                   ELSE [type |-> "int", val |-> Len(res)]
    ELSE [type |-> "int", val |-> 0]

\* get_aircrafts: the raw dict when raw and the body has "aircraft", a count otherwise
get_aircrafts(r, pos, mode, threshold, raw) ==
    LET json == json_or_empty(r) IN
    IF "aircraft" \in DOMAIN json
    THEN IF raw
         THEN [type |-> "dict", val |-> json]
         ELSE [type |-> "int",
               val |-> Len(SelectSeq(json.aircraft,
                                     LAMBDA a : keep(a, pos, mode, threshold)))]
    ELSE [type |-> "int", val |-> 0]

RECURSIVE count_emergency(_)
count_emergency(list) ==
    IF list = << >> THEN 0
    ELSE (IF "squawk" \in DOMAIN Head(list)
             /\ contains_any(Head(list).squawk, EMERGENCY_SQUAWK)
          THEN 1 ELSE 0) + count_emergency(Tail(list))

Position(latitude, longitude) == [latitude |-> latitude, longitude |-> longitude]

\* PiAware.receiver_position before setup() has set it
NoPosition == [unset |-> TRUE]

\* variant: lat alone makes a position
origin_of_lat(receiver) ==
    IF "lat" \in DOMAIN receiver
    THEN Position(receiver.lat, IF "lon" \in DOMAIN receiver THEN receiver.lon ELSE 0)
    ELSE Position(0, 0)

\* get_receiver_position() on what get_receiver() gave
origin_of(receiver) ==
    IF {"lat", "lon"} \subseteq DOMAIN receiver
    THEN Position(receiver.lat, receiver.lon)
    ELSE Position(0, 0)

\* isinstance(PiAware.receiver_position, Position)
is_position(p) == "latitude" \in DOMAIN p

\* what get_receiver() can hand to get_receiver_position(): the mapping of
\* receiver.json, with its coordinates or without lon, or {} after a failed fetch
ReceiverResults == {[lat |-> 51, lon |-> 7], [lat |-> 51], [k \in {} |-> 0]}

\* variant: the cached position is never looked at
get_receiver_position_fresh(cached, receiver) ==
    [origin |-> origin_of(receiver), fetched |-> TRUE]

\* get_receiver_position(): the cached Position when there is one, without a
\* fetch; otherwise receiver = get_receiver() is fetched and turned into one
get_receiver_position(cached, receiver) ==
    IF is_position(cached)
    THEN [origin |-> cached, fetched |-> FALSE]
    ELSE [origin |-> origin_of(receiver), fetched |-> TRUE]

\* the distance argument of a notification: "unknown", or the kilometres of the
\* haversine distance between the two positions, kept as the pair
unknown_distance == [km |-> "unknown"]
to_kilometers(pos1, pos2) == [km |-> "haversine", pos1 |-> pos1, pos2 |-> pos2]

\* variant: only lat is asked for
distance_of_lat(aircraft, origin) ==
    IF "lat" \in DOMAIN aircraft
    THEN to_kilometers(origin, Position(aircraft.lat,
                                        IF "lon" \in DOMAIN aircraft
                                        THEN aircraft.lon ELSE 0))
    ELSE unknown_distance

distance_of(aircraft, origin) ==
    IF {"lat", "lon"} \subseteq DOMAIN aircraft
    THEN to_kilometers(origin, Position(aircraft.lat, aircraft.lon))
    ELSE unknown_distance

\* the arguments of one Helpers.send_slack_notification call
Request(icao_reg, callsign, squawk, distance, mode) ==
    [icao_reg |-> icao_reg, callsign |-> callsign, squawk |-> squawk,
     distance |-> distance, mode |-> mode]

\* the send_slack_notification calls of __has_emergency's loop, in order
RECURSIVE emergency_requests(_, _)
emergency_requests(list, origin) ==
    IF list = << >> THEN << >>
    ELSE LET aircraft == Head(list) IN
         (IF "squawk" \in DOMAIN aircraft
             /\ contains_any(aircraft.squawk, EMERGENCY_SQUAWK)
          THEN << Request(aircraft.hex,
                          IF "flight" \in DOMAIN aircraft
                          THEN trim(aircraft.flight) ELSE "unknown",
                          aircraft.squawk,
                          distance_of(aircraft, origin),
                          "emergency") >>
          ELSE << >>) \o emergency_requests(Tail(list), origin)

\* the callsign and squawk arguments of a watchlist notification
flight_of(aircraft) ==
    IF "flight" \in DOMAIN aircraft THEN trim(aircraft.flight) ELSE "unknown"

squawk_of(aircraft) ==
    IF "squawk" \in DOMAIN aircraft THEN trim(aircraft.squawk) ELSE "unknown"

\* variant: the identifier is looked up as it was received
process_special_interest_exact(aircraft, origin) ==
    (IF /\ "flight" \in DOMAIN aircraft
        /\ Cardinality(REGISTRATION_OF_SPECIAL_INTEREST) >= 1
        /\ trim(aircraft.flight) \in REGISTRATION_OF_SPECIAL_INTEREST
     THEN << Request(aircraft.hex, trim(aircraft.flight), squawk_of(aircraft),
                     distance_of(aircraft, origin), "registration") >>
     ELSE << >>)
    \o
    (IF /\ "hex" \in DOMAIN aircraft
        /\ Cardinality(ICAO_OF_SPECIAL_INTEREST) >= 1
        /\ trim(aircraft.hex) \in ICAO_OF_SPECIAL_INTEREST
     THEN << Request(trim(aircraft.hex), flight_of(aircraft), squawk_of(aircraft),
                     distance_of(aircraft, origin), "icao") >>
     ELSE << >>)

\* __process_special_interest(aircraft): the callsign is looked up in the
\* registration watchlist and the upper-cased identifier in the ICAO one, each
\* only when its table has an entry
process_special_interest(aircraft, origin) ==
    (IF /\ "flight" \in DOMAIN aircraft
        /\ Cardinality(REGISTRATION_OF_SPECIAL_INTEREST) >= 1
        /\ contains_any(trim(aircraft.flight), REGISTRATION_OF_SPECIAL_INTEREST)
     THEN << Request(aircraft.hex, trim(aircraft.flight), squawk_of(aircraft),
                     distance_of(aircraft, origin), "registration") >>
     ELSE << >>)
    \o
    (IF /\ "hex" \in DOMAIN aircraft
        /\ Cardinality(ICAO_OF_SPECIAL_INTEREST) >= 1
        /\ contains_any(upper(trim(aircraft.hex)), ICAO_OF_SPECIAL_INTEREST)
     THEN << Request(upper(trim(aircraft.hex)), flight_of(aircraft),
                     squawk_of(aircraft), distance_of(aircraft, origin), "icao") >>
     ELSE << >>)

RECURSIVE special_interest_requests(_, _)
special_interest_requests(list, origin) ==
    IF list = << >> THEN << >>
    ELSE process_special_interest(Head(list), origin)
         \o special_interest_requests(Tail(list), origin)

\* the notifications one get_aircrafts call sends: __process_special_interest
\* for every aircraft kept by the adsb filter with pos, none when raw
get_aircrafts_requests(r, pos, mode, threshold, raw, origin) ==
    LET json == json_or_empty(r) IN
    IF "aircraft" \in DOMAIN json /\ ~raw /\ mode = "adsb" /\ pos
    THEN special_interest_requests(
             SelectSeq(json.aircraft, LAMBDA a : keep(a, pos, mode, threshold)),
             origin)
    ELSE << >>

banner(emergency) == "!!! SQUAWK 7x00 (Count: " \o ToString(emergency) \o ") !!!"

\* variant: a status that already asks for attention is left alone
new_status_sticky(current_status, emergency) ==
    IF emergency >= 1 /\ current_status # "NEEDS ATTENTION"
    THEN banner(emergency) ELSE current_status

\* __has_emergency, mode "slug": the banner when emergency >= 1, else current_status
new_status(current_status, emergency) ==
    IF emergency >= 1 THEN banner(emergency) ELSE current_status

\* __has_emergency(current_status, mode="slug"); `"aircraft" in aircrafts`
\* raises TypeError when get_aircrafts handed back a count
has_emergency(current_status, r, origin) ==
    LET aircrafts == get_aircrafts(r, TRUE, "adsb", ths, TRUE) IN
    IF aircrafts.type = "int"
    THEN [exc |-> "TypeError", emergency |-> 0, status |-> current_status,
          notes |-> << >>]
    ELSE LET emergency == IF "aircraft" \in DOMAIN aircrafts.val
                          THEN count_emergency(aircrafts.val.aircraft)
                          ELSE TelemetryLoss
         IN [exc |-> "none", emergency |-> emergency,
             status |-> new_status(current_status, emergency),
             notes |-> IF "aircraft" \in DOMAIN aircrafts.val
                       THEN emergency_requests(aircrafts.val.aircraft, origin)
                       ELSE << >>]

\* Helpers.distance: `aircrafts["aircraft"]` raises TypeError on a count
distance(r) ==
    LET aircrafts == get_aircrafts(r, TRUE, "adsb", ths, TRUE) IN
    IF aircrafts.type = "int" THEN "TypeError" ELSE "none"

\* sys.maxsize, the largest index of the platform: 2^31 - 1 on a 32-bit build
maxsize == 2147483647

\* Helpers.haversine_distance(pos1, pos2) with the radius of 6371.0e3, in whole
\* metres, for the positions of the model's receiver and aircraft
haversine_distance(pos1, pos2) ==
    IF pos1 = pos2 THEN 0
    ELSE CASE pos1 = Position(51, 7) /\ pos2 = Position(52, 7) -> 111195
           [] pos1 = Position(51, 7) /\ pos2 = Position(50, 6) -> 131780
           [] pos1 = Position(51, 7) /\ pos2 = Position(49, 8) -> 233587
           [] pos1 = Position(0, 0)  /\ pos2 = Position(51, 7) -> 5709303
           [] pos1 = Position(0, 0)  /\ pos2 = Position(52, 7) -> 5819154
           [] pos1 = Position(0, 0)  /\ pos2 = Position(50, 6) -> 5588976
           [] pos1 = Position(0, 0)  /\ pos2 = Position(49, 8) -> 5502253

\* the loop of Helpers.distance from the element `list` begins with, with the
\* range found so far
RECURSIVE range_from(_, _, _, _, _)
range_from(list, origin, mode, threshold, aircraft_range) ==
    IF list = << >> THEN aircraft_range
    ELSE LET aircraft == Head(list)
             measured == /\ {"lat", "lon", "seen_pos"} \subseteq DOMAIN aircraft
                         /\ aircraft.seen_pos <= threshold
             dist == haversine_distance(origin, Position(aircraft.lat, aircraft.lon))
             found == IF mode = "max" THEN dist > aircraft_range
                                      ELSE dist < aircraft_range
         IN range_from(Tail(list), origin, mode, threshold,
                       IF measured /\ found THEN dist ELSE aircraft_range)

\* what Helpers.distance returns on a mapping that has "aircraft": the smallest
\* or the largest distance of the aircraft whose position is fresh, or the
\* value it starts with
aircraft_range(aircrafts, origin, mode, threshold) ==
    range_from(aircrafts.aircraft, origin, mode, threshold,
               IF mode = "max" THEN 0 ELSE maxsize)

\* Helpers.to_kilometers(meters, 1) as refresh() prints it: round(meters / 1000, 1),
\* in tenths of a kilometre
kilometers(meters) == (meters \div 100) + (IF meters % 100 >= 50 THEN 1 ELSE 0)

\* the image before the two ranges are drawn on it
NoRanges == [min_range |-> -1, max_range |-> -1]

get_fr24_status(r) ==
    LET fr24 == json_or_empty(r) IN
    IF "feed_status" \in DOMAIN fr24 /\ fr24.feed_status = "connected"
    THEN "Connected via " \o fr24.feed_current_mode
    ELSE IF "feed_status" \in DOMAIN fr24
         THEN ucfirst(fr24.feed_status)
         ELSE "unknown"

StatusFields == {"system_uptime", "time", "gps", "radio", "piaware"}

\* str(timedelta(seconds=...)) and datetime.fromtimestamp(... / 1000).strftime(
\* "%d.%m.%Y, %H:%M:%S"), the latter in a UTC time zone, on the values of the model
timedelta_str(seconds) ==
    CASE seconds = 4711 -> "1:18:31"
      [] OTHER          -> ToString(seconds \div 3600) \o ":mm:ss"

strftime(milliseconds) ==
    CASE milliseconds = 1000 -> "01.01.1970, 00:00:01"
      [] OTHER               -> "01.01.1970, 00:00:00"

\* the lines of refresh() before anything is fetched
NoLines == [uptime |-> "", time |-> "", gps |-> "", radio |-> "", piaware |-> ""]

\* the five fields of the status mapping as refresh() reads them: the value of
\* a present field, the fallback string of a missing one; status[f]["message"]
\* raises KeyError on an entry without message
status_lines(status) ==
    IF \E f \in {"gps", "radio", "piaware"} :
           f \in DOMAIN status /\ "message" \notin DOMAIN status[f]
    THEN [exc |-> "KeyError", lines |-> NoLines]
    ELSE [exc |-> "none",
          lines |->
            [uptime  |-> IF "system_uptime" \in DOMAIN status
                         THEN timedelta_str(status.system_uptime)
                         ELSE "Failed API Call",
             time    |-> IF "time" \in DOMAIN status
                         THEN strftime(status.time)
                         ELSE "!!! Failed to get System Time",
             gps     |-> IF "gps" \in DOMAIN status
                         THEN status.gps.message
                         ELSE "!!! Failed to get GPS Status",
             radio   |-> IF "radio" \in DOMAIN status
                         THEN status.radio.message
                         ELSE "!!! Failed to get Radio Status",
             piaware |-> IF "piaware" \in DOMAIN status
                         THEN status.piaware.message
                         ELSE "!!! Failed to get PiAware Status"]]

\* variant: the two system fields are not looked at
status_slug_lenient(status, fr24_on, fr24) ==
    IF \E f \in StatusFields \ {"system_uptime", "time"} : f \notin DOMAIN status
    THEN "NEEDS ATTENTION"
    ELSE IF fr24_on THEN "OK, fr24: " \o get_fr24_status(fr24) ELSE "OK"

\* the status slug of refresh() before the emergency scan
status_slug(status, fr24_on, fr24) ==
    IF \E f \in StatusFields : f \notin DOMAIN status
    THEN "NEEDS ATTENTION"
    ELSE IF fr24_on THEN "OK, fr24: " \o get_fr24_status(fr24) ELSE "OK"

\* variant: the clear also taken for the forced refresh's argument 0
clear_display_upto_one(c) == c <= 1

\* variant: every normal cycle instructs the clear
clear_display_every(c) == c >= 1

\* refresh(): clear_display = bool(cycle == 1)
clear_display(c) == c = 1

\* variant: the counter advanced twice
new_cycle_twice(c) == c + 2

\* refresh(): new_cycle = cycle + 1
new_cycle(c) == c + 1

\* variant: every caller of refresh() stores the result in the loop's counter
StoreResult_shared(t, counter, result) == result

\* what the caller does with refresh()'s result: process() assigns it to its
\* counter, __process_interrupt drops it
StoreResult(t, counter, result) == IF t = "main" THEN result ELSE counter

\* variant: the pins released before the final clear
shutdown_steps_release_first == <<"cleanup", "clear", "exit">>

\* the statements of __shutdown after the SIGHUP test, in order
shutdown_steps == <<"clear", "cleanup", "exit">>

\* sys.exit(0) raised on the GPIO event thread: SystemExit ends the process
\* only when raised in the main thread; what the event thread does with it
\* is up to the GPIO library
callback_exit == {"process", "thread"}

----------------------------------------------------------------------------
(* Configuration and URLs.  A URL is the pair of the host it was built from and
   the path appended to it: f"{PIAWARE_HOST}/status.json". *)

\* os.getenv(name) of a variable that is not set
None == "None"

getenv(value, default) == IF value = None THEN default ELSE value

PIAWARE_HOST     == getenv(env.PIAWARE_HOST, "http://127.0.0.1:8080")
PIAWARE_RETRIES  == getenv(env.PIAWARE_RETRIES, "10")
FLIGHTRADAR_HOST == getenv(env.FLIGHTRADAR_HOST, "http://127.0.0.1:8754")

\* the environments the process is started in
Environments ==
    [PIAWARE_HOST     : {None, "http://piaware.local", "piaware.local", "http://",
                         "http://piaware.local:80a"},
     PIAWARE_RETRIES  : {None, "0", "2"},
     FLIGHTRADAR_HOST : {None, "127.0.0.1:8754"},
     SLACK_BOT_TOKEN  : {None},
     SLACK_CHANNEL    : {None}]

\* the environment with nothing set
DefaultEnv ==
    [PIAWARE_HOST |-> None, PIAWARE_RETRIES |-> None, FLIGHTRADAR_HOST |-> None,
     SLACK_BOT_TOKEN |-> None, SLACK_CHANNEL |-> None]

\* the environments of the notifier: each of the two credentials set or not
SlackEnvironments ==
    {[DefaultEnv EXCEPT !.SLACK_BOT_TOKEN = token, !.SLACK_CHANNEL = channel] :
        token \in {None, "xoxb-1"}, channel \in {None, "#aircraft"}}

\* int(PIAWARE_RETRIES)
int(string) ==
    CASE string = "0"  -> 0
      [] string = "2"  -> 2
      [] string = "10" -> 10

\* urllib.parse.urlparse of host + path, the path starting with "/"
urlparse(url) ==
    CASE url.host = "http://127.0.0.1:8080" -> [scheme |-> "http", netloc |-> "127.0.0.1:8080"]
      [] url.host = "http://127.0.0.1:8754" -> [scheme |-> "http", netloc |-> "127.0.0.1:8754"]
      [] url.host = "http://piaware.local"  -> [scheme |-> "http", netloc |-> "piaware.local"]
      [] url.host = "http://piaware.local:80a"
                                            -> [scheme |-> "http", netloc |-> "piaware.local:80a"]
      [] url.host = "http://"               -> [scheme |-> "http", netloc |-> ""]
      [] url.host = "piaware.local"         -> [scheme |-> "", netloc |-> ""]
      [] url.host = "127.0.0.1:8754"        -> [scheme |-> "", netloc |-> ""]

\* Helpers.is_valid_url: all([result.scheme, result.netloc])
is_valid_url(url) ==
    LET result == urlparse(url) IN result.scheme # "" /\ result.netloc # ""

\* session.get prepares the request before it sends anything, and raises
\* InvalidURL for an authority whose port is not a number
can_prepare(url) == urlparse(url).netloc # "piaware.local:80a"

\* url.lower().startswith(prefix.lower()), by which the session picks the adapter
startswith(url, prefix) ==
    \/ url.host = prefix
    \/ prefix = "http://" /\ urlparse(url).scheme = "http"

\* the functions that fetch, and the resource each asks for
Callers == {"get_status", "get_receiver", "get_aircrafts", "get_fr24_status"}

url_of(caller) ==
    CASE caller = "get_status"      -> [host |-> PIAWARE_HOST, path |-> "/status.json"]
      [] caller = "get_receiver"    -> [host |-> PIAWARE_HOST, path |-> "/skyaware/data/receiver.json"]
      [] caller = "get_aircrafts"   -> [host |-> PIAWARE_HOST, path |-> "/skyaware/data/aircraft.json"]
      [] caller = "get_fr24_status" -> [host |-> FLIGHTRADAR_HOST, path |-> "/monitor.json"]

\* the retry argument of Helpers.download: 2 from get_fr24_status, else None,
\* which download replaces by int(PIAWARE_RETRIES)
retry_of(caller) ==
    IF caller = "get_fr24_status" THEN 2 ELSE int(PIAWARE_RETRIES)

\* session.mount(PIAWARE_HOST, HTTPAdapter(max_retries=Retry(total=retry, ...))):
\* the retries of the adapter that serves url; a URL outside the mounted prefix
\* is served by the session's default adapter, which does not retry
adapter_total(url, retry) ==
    IF startswith(url, PIAWARE_HOST) THEN retry ELSE 0

----------------------------------------------------------------------------
(* The transport: what one attempt of session.get meets *)

ConnectionError == [kind |-> "ConnectionError"]
Response(status_code, retry_after, body) ==
    [kind |-> "response", status_code |-> status_code,
     retry_after |-> retry_after, body |-> body]

\* a body that is not JSON
NotJson == [text |-> "<html>"]

\* a response whose body is not JSON has no json
Received(body) == IF body = NotJson THEN [ok |-> TRUE, text |-> body.text]
                                   ELSE Downloaded(body)

ReceiverBody == [lat |-> 51, lon |-> 7]

Payloads(caller) ==
    CASE caller = "get_status"      -> {StatusFull}
      [] caller = "get_receiver"    -> {ReceiverBody, [lat |-> 51]}
      [] caller = "get_aircrafts"   -> AircraftBodies
      [] caller = "get_fr24_status" -> {[feed_status |-> "disconnected"]}

Attempts(caller) ==
    {ConnectionError}
    \cup {Response(200, FALSE, b) : b \in Payloads(caller) \cup {NotJson}}
    \cup {Response(c, FALSE, NotJson) : c \in {404, 500, 503}}
    \cup {Response(503, TRUE, NotJson)}

\* variant: every 5xx response is retried while retries are left
is_retry_5xx(total, response) == total > 0 /\ response.status_code >= 500

\* Retry.is_retry with the status_forcelist that download leaves empty: only a
\* 413, 429 or 503 that carries Retry-After is tried again, while retries are left
is_retry(total, response) ==
    /\ total > 0
    /\ response.retry_after
    /\ response.status_code \in {413, 429, 503}

\* Retry.increment on a connection error: no retry is left
is_exhausted(total) == total = 0

\* download: `return content` when content.status_code == 200, else False
returned(content) ==
    IF content.status_code = 200 THEN Received(content.body) ELSE DownloadFailed

----------------------------------------------------------------------------
(* Frames *)

Frame(pc, arg) ==
    [pc |-> pc, arg |-> arg, base |-> "none", via |-> "none",
     sd |-> 0, sd_cleared |-> FALSE, sd_released |-> FALSE,
     status_slug |-> "", emergency |-> 0, feed |-> "none",
     status |-> EmptyJson, lines |-> NoLines,
     cleared |-> FALSE, color |-> "0xFF", channel |-> 0]

\* the statements of refresh() inside its try block
TryPcs == {"r_status", "r_scan", "r_clear", "r_counts", "r_range", "r_display", "r_return"}

\* entering __shutdown from `via` ("except", "pin", "handler"); under a signal
\* handler `base` tells whether the interrupted statement is inside refresh()'s
\* try block ("try") or not ("outside")
ShutdownFrame(via, base) ==
    [Frame("shutdown", 0) EXCEPT !.via = via, !.base = base, !.sd = 1]

Rest(t) == IF t = "main" THEN "sleep" ELSE "idle"

\* the fetches of one refresh(), in the order it makes them: get_status,
\* get_fr24_status (when ENABLE_FR24), get_aircrafts(raw=True) of __has_emergency,
\* the three counters, get_aircrafts(raw=True) of the two Helpers.distance
RefreshFetches ==
    <<"get_status", "get_fr24_status", "get_aircrafts", "get_aircrafts",
      "get_aircrafts", "get_aircrafts", "get_aircrafts", "get_aircrafts">>

\* those that ask for the raw dict and index it
RawFetches == {3, 7, 8}

\* the fetch after the k-th: get_fr24_status is skipped unless ENABLE_FR24
NextFetches(k) ==
    IF k = 1 THEN {2, 3} ELSE {(k % Len(RefreshFetches)) + 1}

\* the aircraft fetches of a refresh
AircraftFetches == {k \in DOMAIN RefreshFetches : RefreshFetches[k] = "get_aircrafts"}

\* the list of a response: json["aircraft"], nothing when the key is missing
aircraft_of(r) ==
    IF "aircraft" \in DOMAIN json_or_empty(r) THEN json_or_empty(r).aircraft ELSE << >>

\* nothing scanned yet
NoScan == [k |-> 0, list |-> << >>, emergency |-> 0, notes |-> << >>]

\* variant: Helpers.distance looks for emergencies as well
scan_of_rescan(k, r, origin) ==
    IF k \in RawFetches
    THEN LET h == has_emergency("", r, origin) IN
         [k |-> k,
          list |-> IF "aircraft" \in DOMAIN json_or_empty(r)
                   THEN json_or_empty(r).aircraft ELSE << >>,
          emergency |-> h.emergency, notes |-> h.notes]
    ELSE NoScan

\* what the consumer of the k-th fetch of refresh() does with the response r:
\* __has_emergency goes through the list of its get_aircrafts(raw=True) and
\* notifies; the three counts of refresh() call get_aircrafts, which calls
\* __process_special_interest in adsb mode with pos; Helpers.distance only
\* measures
scan_of(k, r, origin) ==
    CASE k = 3 -> LET h == has_emergency("", r, origin) IN
                  [k |-> k,
                   list |-> IF "aircraft" \in DOMAIN json_or_empty(r)
                            THEN json_or_empty(r).aircraft ELSE << >>,
                   emergency |-> h.emergency, notes |-> h.notes]
      [] k = 4 -> [NoScan EXCEPT !.k = k, !.notes =
                     get_aircrafts_requests(r, FALSE, "adsb", ths, FALSE, origin)]
      [] k = 5 -> [NoScan EXCEPT !.k = k, !.list = aircraft_of(r), !.notes =
                     get_aircrafts_requests(r, TRUE, "adsb", ths, FALSE, origin)]
      [] k = 6 -> [NoScan EXCEPT !.k = k, !.notes =
                     get_aircrafts_requests(r, TRUE, "mlat", ths, FALSE, origin)]
      [] OTHER -> NoScan

\* the aircraft the history follows, and whether a mapping shows it squawking
\* an emergency code
Tracked == "3c6444"

squawking(json, hex) ==
    /\ "aircraft" \in DOMAIN json
    /\ \E j \in DOMAIN json.aircraft :
         /\ json.aircraft[j].hex = hex
         /\ "squawk" \in DOMAIN json.aircraft[j]
         /\ json.aircraft[j].squawk \in {"7500", "7600", "7700"}

NoTally == [refreshes |-> 0, seen |-> 0, alerted |-> 0, steady |-> TRUE,
            refetched |-> FALSE]

\* the history after the consumer of the k-th fetch has sent notes: refreshes
\* counts the refreshes whose last fetch was consumed, seen the emergency scans
\* whose list showed the tracked aircraft squawking, alerted the emergency
\* notifications about it, and steady holds while every aircraft fetch so far
\* showed it squawking
tallied(t, k, json, notes) ==
    [refreshes |-> IF k = Len(RefreshFetches) THEN t.refreshes + 1 ELSE t.refreshes,
     seen      |-> IF k = 3 /\ squawking(json, Tracked) THEN t.seen + 1 ELSE t.seen,
     alerted   |-> t.alerted + Cardinality({j \in DOMAIN notes :
                       notes[j].mode = "emergency" /\ notes[j].icao_reg = Tracked}),
     steady    |-> t.steady /\ (k \in AircraftFetches => squawking(json, Tracked)),
     refetched |-> t.refetched]

\* what client.chat_postMessage gives: a response, with or without "ok", or an
\* exception (SlackApiError, a connection error)
SlackOutcomes ==
    { [ok |-> TRUE], [ok |-> FALSE], [warning |-> "superfluous_charset"],
      [exception |-> "SlackApiError"] }

\* no chat_postMessage call was made
NoOutcome == [skipped |-> TRUE]

\* variant: the exception of the transport is not caught
send_slack_notification_raising(request, slack_token, slack_channel, outcome) ==
    IF slack_token # None /\ slack_channel # None
    THEN IF request.mode \notin {"emergency", "registration", "icao"}
         THEN [exc |-> "ValueError", outcome |-> NoOutcome, delivered |-> FALSE]
         ELSE IF "exception" \in DOMAIN outcome
         THEN [exc |-> outcome.exception, outcome |-> outcome, delivered |-> FALSE]
         ELSE [exc |-> "none", outcome |-> outcome,
               delivered |-> "ok" \in DOMAIN outcome /\ outcome.ok]
    ELSE [exc |-> "none", outcome |-> NoOutcome, delivered |-> FALSE]

\* Helpers.send_slack_notification: without both credentials False at once;
\* check_supported(mode) outside the try; inside it the message is built and
\* posted, `except Exception` returns False, else bool(response.get("ok", False))
send_slack_notification(request, slack_token, slack_channel, outcome) ==
    IF slack_token # None /\ slack_channel # None
    THEN IF request.mode \notin {"emergency", "registration", "icao"}
         THEN [exc |-> "ValueError", outcome |-> NoOutcome, delivered |-> FALSE]
         ELSE IF "exception" \in DOMAIN outcome
         THEN [exc |-> "none", outcome |-> outcome, delivered |-> FALSE]
         ELSE [exc |-> "none", outcome |-> outcome,
               delivered |-> "ok" \in DOMAIN outcome /\ outcome.ok]
    ELSE [exc |-> "none", outcome |-> NoOutcome, delivered |-> FALSE]

\* the two loops that notify: __has_emergency's over the raw list, and
\* get_aircrafts' over the list it filters (adsb, pos)
ScanKinds == {"emergency", "special_interest"}

\* the send_slack_notification calls one aircraft of the loop leads to
requests_for(kind, aircraft, origin) ==
    IF kind = "emergency"
    THEN emergency_requests(<<aircraft>>, origin)
    ELSE IF keep(aircraft, TRUE, "adsb", ths)
         THEN process_special_interest(aircraft, origin)
         ELSE << >>

\* no get_aircrafts call in progress
NoFilterCall ==
    [pc |-> "none", r |-> DownloadFailed, pos |-> TRUE, mode |-> "adsb",
     threshold |-> 0, raw |-> FALSE, result |-> [type |-> "none", val |-> 0]]

\* the records of the model, and the lists get_aircrafts is given: those of
\* the bodies and every record on its own
Aircraft ==
    {AcEmergency, AcNormal, AcMlat, AcHijackNoPos, AcRadioStale, AcVipNoLon, AcVipStale}

FilterResponses ==
    AircraftResponses \cup {Downloaded([now |-> 1, aircraft |-> <<a>>]) : a \in Aircraft}

\* the thresholds of the calls: below, at and above the ages of the records
Thresholds == {3, 120, 121}

\* no loop in progress
NoScanLoop ==
    [pc |-> "none", kind |-> "none", list |-> << >>, idx |-> 0, queue |-> << >>,
     log |-> << >>, exc |-> "none",
     current_status |-> "", emergency |-> 0, new_status |-> ""]

\* the loop of kind is about to take the first aircraft of list
NewScanLoop(kind, list) ==
    [NoScanLoop EXCEPT !.pc = "loop", !.kind = kind, !.list = list]

\* variant: an aircraft counts only when its notification was delivered
notification_sent_counted(loop, sent) ==
    [loop EXCEPT !.log = Append(@, [request |-> Head(loop.queue),
                                    outcome |-> sent.outcome,
                                    delivered |-> sent.delivered]),
                 !.emergency = IF sent.delivered THEN @ ELSE @ - 1,
                 !.queue = Tail(@),
                 !.pc = IF Tail(loop.queue) = << >> THEN "loop" ELSE "send"]

\* notification_sent = send_slack_notification(...); logging.warning(...): the
\* loop after one send returned sent.  The result goes into the log line and
\* nowhere else; then the next send of this aircraft or the next aircraft
notification_sent(loop, sent) ==
    [loop EXCEPT !.log = Append(@, [request |-> Head(loop.queue),
                                    outcome |-> sent.outcome,
                                    delivered |-> sent.delivered]),
                 !.queue = Tail(@),
                 !.pc = IF Tail(loop.queue) = << >> THEN "loop" ELSE "send"]

\* no fetch in progress, the k-th of the refresh was the last
NoDownload(k) ==
    [st |-> "none", k |-> k, caller |-> "none", url |-> [host |-> "", path |-> ""],
     retry |-> 0, total |-> 0, attempts |-> 0, conn_errors |-> 0, retried |-> 0,
     status_code |-> 0, retry_after |-> FALSE,
     r |-> DownloadFailed, result |-> EmptyJson, exc |-> "none"]

\* caller enters Helpers.download(url, retry)
NewDownload(k, caller) ==
    [NoDownload(k) EXCEPT !.st = "check", !.caller = caller,
                          !.url = url_of(caller), !.retry = retry_of(caller)]

\* variant: the two clear colours exchanged between pins 5 and 6
interrupt_call_swapped(channel) ==
    [ (CASE channel = 5  -> [Frame("clr", 0) EXCEPT !.color = "0xFF"]
         [] channel = 6  -> [Frame("clr", 0) EXCEPT !.color = "0x00"]
         [] channel = 13 -> Frame("r_status", 0)
         [] channel = 19 -> ShutdownFrame("pin", "none")
         [] OTHER        -> Frame("reject", 0))
      EXCEPT !.channel = channel ]

\* the if/elif chain of __process_interrupt: the call the event thread makes for
\* the channel, "reject" being the `raise ValueError` of the else branch
interrupt_call(channel) ==
    [ (CASE channel = 5  -> [Frame("clr", 0) EXCEPT !.color = "0x00"]
         [] channel = 6  -> [Frame("clr", 0) EXCEPT !.color = "0xFF"]
         [] channel = 13 -> Frame("r_status", 0)
         [] channel = 19 -> ShutdownFrame("pin", "none")
         [] OTHER        -> Frame("reject", 0))
      EXCEPT !.channel = channel ]

Init ==
    /\ proc = "running"
    /\ crash = [exc |-> "none", via |-> "none"]
    /\ cycle = 1
    /\ completed = 0
    /\ i = 0
    /\ th = [t \in Threads |-> IF t = "main" THEN Frame("loop", 0) ELSE Frame("idle", 0)]
    /\ gpio = "claimed"
    /\ epd = "boot"
    /\ sinkBroken = FALSE
    /\ lastSig = "none"
    /\ sd_left = "no"
    /\ env = DefaultEnv
    /\ boot = "process"
    /\ dl = NoDownload(0)
    /\ receiver_position = origin_of(ReceiverBody)
    /\ scan = NoScan
    /\ tally = NoTally
    /\ ranges = NoRanges
    /\ nt = NoScanLoop
    /\ fc = NoFilterCall

----------------------------------------------------------------------------
(* Exceptions *)

\* Thread t, whose frame is f, raises exc at its current statement.  IOError inside
\* refresh()'s try block enters `except IOError`, which calls __shutdown(15).  An
\* exception raised by a signal handler continues in the frame the handler
\* interrupted.  Anything uncaught ends the process in the main thread and only
\* the callback in the event thread.
Raise(t, f, exc) ==
    LET in_try == IF f.base # "none" THEN f.base = "try" ELSE f.pc \in TryPcs
        how    == IF f.base # "none" THEN "handler" ELSE f.via
    IN
    /\ sd_left' = IF exc = "SystemExit" THEN "exit"
                  ELSE IF f.pc = "shutdown" THEN "raised" ELSE sd_left
    /\ IF exc = "IOError" /\ in_try
       THEN /\ th' = [th EXCEPT ![t] = ShutdownFrame("except", "none")]
            /\ UNCHANGED <<proc, crash>>
       ELSE IF exc = "SystemExit"
       THEN /\ IF t = "main"
               THEN proc' = "exit0" /\ th' = [th EXCEPT ![t] = f]
               ELSE \E outcome \in callback_exit :
                      IF outcome = "process"
                      THEN proc' = "exit0" /\ th' = [th EXCEPT ![t] = f]
                      ELSE proc' = proc /\ th' = [th EXCEPT ![t] = Frame("idle", 0)]
            /\ UNCHANGED crash
       ELSE IF t = "main"
       THEN /\ proc' = "crashed"
            /\ crash' = [exc |-> exc, via |-> how]
            /\ th' = [th EXCEPT ![t] = [f EXCEPT !.pc = "dead"]]
       ELSE /\ th' = [th EXCEPT ![t] = Frame("idle", 0)]
            /\ UNCHANGED <<proc, crash>>

----------------------------------------------------------------------------
(* PiAware.process() *)

\* while True: current_cycle = cycle; PiAware.refresh(cycle=current_cycle)
StartCycle ==
    /\ proc = "running"
    /\ th["main"].pc = "loop"
    /\ cycle <= MaxCycle
    /\ th' = [th EXCEPT !["main"] = Frame("r_status", cycle)]
    /\ UNCHANGED <<proc, crash, cycle, completed, i, gpio, epd, sinkBroken,
                   lastSig, sd_left>>
    /\ UNCHANGED fvars

\* one ping period of the sleep loop: sleepy_updates times time.sleep(1); i += 1
SleepPing ==
    /\ proc = "running"
    /\ th["main"].pc = "sleep"
    /\ i < sleepy_display
    /\ i' = i + sleepy_updates
    /\ UNCHANGED <<proc, crash, cycle, completed, th, gpio, epd, sinkBroken,
                   lastSig, sd_left>>
    /\ UNCHANGED fvars

\* the sleep loop ends, the while True loop starts over
Wake ==
    /\ proc = "running"
    /\ th["main"].pc = "sleep"
    /\ ~(i < sleepy_display)
    /\ th' = [th EXCEPT !["main"] = Frame("loop", 0)]
    /\ UNCHANGED <<proc, crash, cycle, completed, i, gpio, epd, sinkBroken,
                   lastSig, sd_left>>
    /\ UNCHANGED fvars

----------------------------------------------------------------------------
(* PiAware.refresh(cycle), run by the main loop and by pin 13 *)

\* get_status(), get_fr24_status() when Helpers.bool_from_env("ENABLE_FR24"), and
\* the per-field fallbacks
RefreshStatus(t) ==
    /\ proc = "running"
    /\ th[t].pc = "r_status"
    /\ \E s \in StatusResponses, enable_fr24 \in BOOLEAN, f24 \in Fr24Responses :
         LET status == json_or_empty(s)
             parsed == status_lines(status) IN
         IF parsed.exc # "none"
         THEN Raise(t, th[t], parsed.exc)
         ELSE /\ th' = [th EXCEPT ![t].pc = "r_scan",
                                  ![t].status = status,
                                  ![t].lines = parsed.lines,
                                  ![t].status_slug =
                                      status_slug(status, enable_fr24, f24)]
              /\ UNCHANGED <<proc, crash, sd_left>>
    /\ UNCHANGED <<cycle, completed, i, gpio, epd, sinkBroken, lastSig>>
    /\ UNCHANGED fvars

\* status_slug = PiAware.__has_emergency(current_status=status_slug)
RefreshScan(t) ==
    /\ proc = "running"
    /\ th[t].pc = "r_scan"
    /\ \E r \in AircraftResponses, receiver \in ReceiverResults :
         LET origin == get_receiver_position(receiver_position, receiver).origin
             h == has_emergency(th[t].status_slug, r, origin)
             f == [th[t] EXCEPT
                     !.feed = IF "aircraft" \in DOMAIN json_or_empty(r)
                              THEN "available" ELSE "unavailable",
                     !.emergency = h.emergency,
                     !.status_slug = h.status]
         IN IF h.exc # "none"
            THEN Raise(t, f, h.exc)
            ELSE /\ th' = [th EXCEPT ![t] = [f EXCEPT !.pc = "r_clear"]]
                 /\ UNCHANGED <<proc, crash, sd_left>>
    /\ UNCHANGED <<cycle, completed, i, gpio, epd, sinkBroken, lastSig>>
    /\ UNCHANGED fvars

\* epd = PiAware.__clear(clear=clear_display, sleep=False), then the status lines
\* are drawn on the image: status_slug is not read again
RefreshClear(t) ==
    /\ proc = "running"
    /\ th[t].pc = "r_clear"
    /\ IF sinkBroken
       THEN Raise(t, th[t], "IOError") /\ UNCHANGED epd
       ELSE /\ th' = [th EXCEPT ![t] = [Frame("r_counts", th[t].arg) EXCEPT
                                          !.cleared = clear_display(th[t].arg),
                                          !.channel = th[t].channel]]
            /\ epd' = IF clear_display(th[t].arg) THEN "0xFF" ELSE epd
            /\ UNCHANGED <<proc, crash, sd_left>>
    /\ UNCHANGED <<cycle, completed, i, gpio, sinkBroken, lastSig>>
    /\ UNCHANGED fvars

\* the three counters: get_aircrafts(pos=False), (pos=True), (mode="mlat"); each
\* is a count whatever the fetch gives, drawn on the image at once (the image's
\* text is not kept: epd only tells that an image is shown)
RefreshCounts(t) ==
    /\ proc = "running"
    /\ th[t].pc = "r_counts"
    /\ \A r \in AircraftResponses :
         /\ get_aircrafts(r, FALSE, "adsb", ths, FALSE).type = "int"
         /\ get_aircrafts(r, TRUE, "adsb", ths, FALSE).type = "int"
         /\ get_aircrafts(r, TRUE, "mlat", ths, FALSE).type = "int"
    /\ th' = [th EXCEPT ![t].pc = "r_range"]
    /\ UNCHANGED <<proc, crash, cycle, completed, i, gpio, epd, sinkBroken,
                   lastSig, sd_left>>
    /\ UNCHANGED fvars

\* Helpers.distance(mode="min") and Helpers.distance(mode="max")
RefreshRange(t) ==
    /\ proc = "running"
    /\ th[t].pc = "r_range"
    /\ \E r1 \in AircraftResponses, r2 \in AircraftResponses :
         LET exc == IF distance(r1) # "none" THEN distance(r1) ELSE distance(r2)
         IN IF exc # "none"
            THEN Raise(t, th[t], exc)
            ELSE /\ th' = [th EXCEPT ![t].pc = "r_display"]
                 /\ UNCHANGED <<proc, crash, sd_left>>
    /\ UNCHANGED <<cycle, completed, i, gpio, epd, sinkBroken, lastSig>>
    /\ UNCHANGED fvars

\* epd.display(epd.getbuffer(ep_image)); epd.sleep()
RefreshDisplay(t) ==
    /\ proc = "running"
    /\ th[t].pc = "r_display"
    /\ IF sinkBroken
       THEN Raise(t, th[t], "IOError") /\ UNCHANGED epd
       ELSE /\ th' = [th EXCEPT ![t].pc = "r_return"]
            /\ epd' = "image"
            /\ UNCHANGED <<proc, crash, sd_left>>
    /\ UNCHANGED <<cycle, completed, i, gpio, sinkBroken, lastSig>>
    /\ UNCHANGED fvars

\* new_cycle = cycle + 1; return new_cycle -- and what the caller does with it:
\* process() stores it and sets i = 0, __process_interrupt returns
RefreshReturn(t) ==
    /\ proc = "running"
    /\ th[t].pc = "r_return"
    /\ cycle' = StoreResult(t, cycle, new_cycle(th[t].arg))
    /\ completed' = IF t = "main" THEN completed + 1 ELSE completed
    /\ i' = IF t = "main" THEN 0 ELSE i
    /\ th' = [th EXCEPT ![t] = Frame(Rest(t), 0)]
    /\ UNCHANGED <<proc, crash, gpio, epd, sinkBroken, lastSig, sd_left>>
    /\ UNCHANGED fvars

----------------------------------------------------------------------------
(* PiAware.__process_interrupt(channel), on the GPIO event thread *)

\* variant: the pins are polled by the main loop between two sleeps
process_interrupt_polled(channel) ==
    /\ proc = "running"
    /\ gpio = "claimed"
    /\ th["main"].pc = "loop"
    /\ th["cb"].pc = "idle"
    /\ th' = [th EXCEPT !["cb"] = interrupt_call(channel)]
    /\ UNCHANGED <<proc, crash, cycle, completed, i, gpio, epd, sinkBroken,
                   lastSig, sd_left>>
    /\ UNCHANGED fvars

process_interrupt(channel) ==
    /\ proc = "running"
    /\ gpio = "claimed"
    /\ th["cb"].pc = "idle"
    /\ th' = [th EXCEPT !["cb"] = interrupt_call(channel)]
    /\ UNCHANGED <<proc, crash, cycle, completed, i, gpio, epd, sinkBroken,
                   lastSig, sd_left>>
    /\ UNCHANGED fvars

\* else: raise ValueError("Unexpected Pin: %s", channel)
RejectPin ==
    /\ proc = "running"
    /\ th["cb"].pc = "reject"
    /\ Raise("cb", th["cb"], "ValueError")
    /\ UNCHANGED <<cycle, completed, i, gpio, epd, sinkBroken, lastSig>>
    /\ UNCHANGED fvars

\* PiAware.__clear(clear=True, sleep=False, display_color=...) of pins 5 and 6
ClearDisplay ==
    /\ proc = "running"
    /\ th["cb"].pc = "clr"
    /\ IF sinkBroken
       THEN Raise("cb", th["cb"], "IOError") /\ UNCHANGED epd
       ELSE /\ th' = [th EXCEPT !["cb"] = Frame("idle", 0)]
            /\ epd' = th["cb"].color
            /\ UNCHANGED <<proc, crash, sd_left>>
    /\ UNCHANGED <<cycle, completed, i, gpio, sinkBroken, lastSig>>
    /\ UNCHANGED fvars

----------------------------------------------------------------------------
(* PiAware.__shutdown(signal_number) *)

\* PiAware.__clear(clear=True, sleep=True)
ShutdownClear(t) ==
    /\ proc = "running"
    /\ th[t].pc = "shutdown"
    /\ shutdown_steps[th[t].sd] = "clear"
    /\ IF sinkBroken
       THEN Raise(t, th[t], "IOError") /\ UNCHANGED epd
       ELSE /\ th' = [th EXCEPT ![t].sd = @ + 1, ![t].sd_cleared = TRUE]
            /\ epd' = "0xFF"
            /\ UNCHANGED <<proc, crash, sd_left>>
    /\ UNCHANGED <<cycle, completed, i, gpio, sinkBroken, lastSig>>
    /\ UNCHANGED fvars

\* GPIO.cleanup(); GPIO.setmode(GPIO.BCM)
ShutdownCleanup(t) ==
    /\ proc = "running"
    /\ th[t].pc = "shutdown"
    /\ shutdown_steps[th[t].sd] = "cleanup"
    /\ gpio' = "released"
    /\ th' = [th EXCEPT ![t].sd = @ + 1, ![t].sd_released = TRUE]
    /\ UNCHANGED <<proc, crash, cycle, completed, i, epd, sinkBroken,
                   lastSig, sd_left>>
    /\ UNCHANGED fvars

\* sys.exit(0)
ShutdownExit(t) ==
    /\ proc = "running"
    /\ th[t].pc = "shutdown"
    /\ shutdown_steps[th[t].sd] = "exit"
    /\ Raise(t, th[t], "SystemExit")
    /\ UNCHANGED <<cycle, completed, i, gpio, epd, sinkBroken, lastSig>>
    /\ UNCHANGED fvars

----------------------------------------------------------------------------
(* OS signals *)

\* A signal with no handler installed takes its default action, which ends the
\* process.  A handled one runs __process_shutdown_signal in the main thread, on
\* top of what the main thread was executing.
Signal(s) ==
    /\ proc = "running"
    /\ lastSig' = s
    /\ IF s \notin Registered
       THEN proc' = "killed" /\ UNCHANGED th
       ELSE IF s = "SIGHUP"
       THEN UNCHANGED <<proc, th>>
       ELSE /\ th' = [th EXCEPT !["main"] =
                        ShutdownFrame("handler",
                                      IF th["main"].base # "none"
                                      THEN th["main"].base
                                      ELSE IF th["main"].pc \in TryPcs
                                           THEN "try" ELSE "outside")]
            /\ UNCHANGED proc
    /\ UNCHANGED <<crash, cycle, completed, i, gpio, epd, sinkBroken,
                   sd_left>>
    /\ UNCHANGED fvars

----------------------------------------------------------------------------
(* The e-Paper, as the program sees it *)

SinkBreaks ==
    /\ proc = "running"
    /\ ~sinkBroken
    /\ sinkBroken' = TRUE
    /\ UNCHANGED <<proc, crash, cycle, completed, i, th, gpio, epd,
                   lastSig, sd_left>>
    /\ UNCHANGED fvars

SinkRecovers ==
    /\ proc = "running"
    /\ sinkBroken
    /\ sinkBroken' = FALSE
    /\ UNCHANGED <<proc, crash, cycle, completed, i, th, gpio, epd,
                   lastSig, sd_left>>
    /\ UNCHANGED fvars

----------------------------------------------------------------------------
(* The fetches: PiAware.setup(), then the fetches of the refresh loop, each a
   call of Helpers.download followed by the caller's r.json() *)

\* what r.json() raises on a body that is not JSON: the JSONDecodeError of
\* requests, which is an IOError, or the one of the json module, a ValueError
JSONDecodeError == {"IOError", "ValueError"}

\* exc leaves the fetch.  In setup() nothing catches it; in refresh() `except
\* IOError` does and calls __shutdown(15)
FetchRaise(exc) ==
    /\ dl' = [dl EXCEPT !.st = "raised", !.exc = exc]
    /\ IF boot = "process" /\ exc = "IOError"
       THEN boot' = "shutdown" /\ UNCHANGED <<proc, crash>>
       ELSE /\ proc' = "crashed"
            /\ crash' = [exc |-> exc, via |-> IF boot = "process" THEN "none" ELSE "setup"]
            /\ UNCHANGED boot

\* setup(): the PIAWARE_HOST test, then get_receiver_position(), which finds
\* receiver_position unset and calls get_receiver()
Setup ==
    /\ proc = "running"
    /\ boot = "setup"
    /\ IF PIAWARE_HOST = None
       THEN FetchRaise("RuntimeError")
       ELSE /\ boot' = "receiver"
            /\ dl' = NewDownload(0, "get_receiver")
            /\ UNCHANGED <<proc, crash>>
    /\ UNCHANGED <<env, nt, fc, mvars, receiver_position, scan, tally, ranges>>

\* refresh() makes its k-th fetch
Call(k) ==
    /\ proc = "running"
    /\ boot = "process"
    /\ dl.st = "none"
    /\ k \in NextFetches(dl.k)
    /\ k = 1 => tally.refreshes < MaxRefresh
    /\ dl' = NewDownload(k, RefreshFetches[k])
    /\ scan' = NoScan
    /\ ranges' = IF k = 1 THEN NoRanges ELSE ranges
    /\ UNCHANGED <<proc, crash, env, nt, fc, boot, mvars, receiver_position, tally>>

\* download: if not is_valid_url(url): raise RuntimeError; then the session,
\* the cache buster and the adapter mounted at PIAWARE_HOST.  session.get raises
\* InvalidURL for a URL it cannot prepare, inside download's try, whose `except
\* Exception` returns False
CheckUrl ==
    /\ proc = "running"
    /\ dl.st = "check"
    /\ IF ~is_valid_url(dl.url)
       THEN FetchRaise("RuntimeError")
       ELSE /\ dl' = IF can_prepare(dl.url)
                     THEN [dl EXCEPT !.st = "get",
                                     !.total = adapter_total(dl.url, dl.retry)]
                     ELSE [dl EXCEPT !.st = "returned", !.r = DownloadFailed]
            /\ UNCHANGED <<proc, crash, boot>>
    /\ UNCHANGED <<env, nt, fc, mvars, receiver_position, scan, tally, ranges>>

\* one attempt of session.get(url): a connection error is tried again until the
\* retries are used up, and then download's `except Exception` returns False; a
\* response ends the get unless the retry policy has it tried again
Attempt ==
    /\ proc = "running"
    /\ dl.st = "get"
    /\ \E o \in Attempts(dl.caller) :
         LET d == [dl EXCEPT !.attempts = @ + 1] IN
         IF o = ConnectionError
         THEN IF is_exhausted(dl.total)
              THEN dl' = [d EXCEPT !.conn_errors = @ + 1, !.st = "returned",
                                   !.r = DownloadFailed]
              ELSE dl' = [d EXCEPT !.conn_errors = @ + 1, !.total = @ - 1]
         ELSE LET e == [d EXCEPT !.status_code = o.status_code,
                                 !.retry_after = o.retry_after] IN
              IF is_retry(dl.total, o)
              THEN dl' = [e EXCEPT !.total = @ - 1, !.retried = @ + 1]
              ELSE dl' = [e EXCEPT !.st = "returned", !.r = returned(o)]
    /\ UNCHANGED <<proc, crash, env, nt, fc, boot, mvars, receiver_position, scan, tally, ranges>>

\* the caller: res = r.json() if r is not False else {}
ParseJson ==
    /\ proc = "running"
    /\ dl.st = "returned"
    /\ IF dl.r.ok /\ "json" \notin DOMAIN dl.r
       THEN \E exc \in JSONDecodeError : FetchRaise(exc)
       ELSE /\ dl' = [dl EXCEPT !.st = "done", !.result = json_or_empty(dl.r)]
            /\ UNCHANGED <<proc, crash, boot>>
    /\ UNCHANGED <<env, nt, fc, mvars, receiver_position, scan, tally, ranges>>

\* the caller goes on with the mapping: setup() stores what
\* get_receiver_position() makes of it as the receiver position,
\* wires the pins and the signals and process() begins; __has_emergency and
\* Helpers.distance index what get_aircrafts(raw=True) gave them, which is the
\* count 0 and a TypeError when the mapping has no "aircraft"
\* after the emergency scan refresh() asks get_receiver_position() for the
\* origin of the two ranges
Consume ==
    /\ proc = "running"
    /\ dl.st = "done"
    /\ IF boot = "receiver"
       THEN /\ boot' = "process"
            /\ dl' = NoDownload(0)
            /\ receiver_position' =
                   get_receiver_position(receiver_position, dl.result).origin
            /\ UNCHANGED <<proc, crash, scan, tally, ranges>>
       ELSE IF dl.k \in RawFetches /\ "aircraft" \notin DOMAIN dl.result
       THEN /\ FetchRaise("TypeError")
            /\ UNCHANGED <<receiver_position, scan, tally, ranges>>
       ELSE /\ dl' = NoDownload(dl.k)
            /\ \E receiver \in ReceiverResults :
                 LET found  == get_receiver_position(receiver_position, receiver)
                     result == scan_of(dl.k, dl.r, found.origin) IN
                 /\ scan' = result
                 /\ ranges' =
                      CASE dl.k = 7 -> [ranges EXCEPT !.min_range = kilometers(
                                 aircraft_range(dl.result, found.origin, "min", ths))]
                        [] dl.k = 8 -> [ranges EXCEPT !.max_range = kilometers(
                                 aircraft_range(dl.result, found.origin, "max", ths))]
                        [] OTHER -> ranges
                 /\ tally' = [tallied(tally, dl.k, dl.result, result.notes)
                                EXCEPT !.refetched = @ \/ (dl.k = 3 /\ found.fetched)]
            /\ UNCHANGED <<proc, crash, boot, receiver_position>>
    /\ UNCHANGED <<env, nt, fc, mvars>>

----------------------------------------------------------------------------

Next ==
    \/ StartCycle
    \/ SleepPing
    \/ Wake
    \/ \E t \in Threads : RefreshStatus(t)
    \/ \E t \in Threads : RefreshScan(t)
    \/ \E t \in Threads : RefreshClear(t)
    \/ \E t \in Threads : RefreshCounts(t)
    \/ \E t \in Threads : RefreshRange(t)
    \/ \E t \in Threads : RefreshDisplay(t)
    \/ \E t \in Threads : RefreshReturn(t)
    \/ \E channel \in Channels : process_interrupt(channel)
    \/ RejectPin
    \/ ClearDisplay
    \/ \E t \in Threads : ShutdownClear(t)
    \/ \E t \in Threads : ShutdownCleanup(t)
    \/ \E t \in Threads : ShutdownExit(t)
    \/ \E s \in Signals : Signal(s)
    \/ SinkBreaks
    \/ SinkRecovers

Spec == Init /\ [][Next]_vars

\* the process from its start, seen from its fetches
InitFetch ==
    /\ proc = "running"
    /\ crash = [exc |-> "none", via |-> "none"]
    /\ cycle = 1
    /\ completed = 0
    /\ i = 0
    /\ th = [t \in Threads |-> IF t = "main" THEN Frame("loop", 0) ELSE Frame("idle", 0)]
    /\ gpio = "claimed"
    /\ epd = "boot"
    /\ sinkBroken = FALSE
    /\ lastSig = "none"
    /\ sd_left = "no"
    /\ env \in Environments
    /\ boot = "setup"
    /\ dl = NoDownload(0)
    /\ receiver_position = NoPosition
    /\ scan = NoScan
    /\ tally = NoTally
    /\ ranges = NoRanges
    /\ nt = NoScanLoop
    /\ fc = NoFilterCall

NextFetch ==
    \/ Setup
    \/ \E k \in DOMAIN RefreshFetches : Call(k)
    \/ CheckUrl
    \/ Attempt
    \/ ParseJson
    \/ Consume

SpecFetch == InitFetch /\ [][NextFetch]_vars

----------------------------------------------------------------------------
(* The notifier inside the loops that call it *)

\* for aircraft in ...: the next aircraft, and the calls it leads to
ScanNext ==
    /\ nt.pc = "loop"
    /\ nt.idx < Len(nt.list)
    /\ LET aircraft == nt.list[nt.idx + 1]
           queue == requests_for(nt.kind, aircraft, receiver_position) IN
       nt' = [nt EXCEPT !.idx = @ + 1, !.queue = queue,
                        !.emergency = IF nt.kind = "emergency"
                                      THEN @ + count_emergency(<<aircraft>>) ELSE @,
                        !.pc = IF queue = << >> THEN "loop" ELSE "send"]
    /\ UNCHANGED <<proc, crash, mvars, env, fc, boot, dl, receiver_position, scan, tally, ranges>>

\* sent = send_slack_notification(...), and the log line after it
SendNotification ==
    /\ nt.pc = "send"
    /\ \E outcome \in SlackOutcomes :
         LET sent == send_slack_notification(Head(nt.queue), env.SLACK_BOT_TOKEN,
                                             env.SLACK_CHANNEL, outcome) IN
         IF sent.exc # "none"
         THEN nt' = [nt EXCEPT !.pc = "raised", !.exc = sent.exc]
         ELSE nt' = notification_sent(nt, sent)
    /\ UNCHANGED <<proc, crash, mvars, env, fc, boot, dl, receiver_position, scan, tally, ranges>>

\* the loop is through its list; __has_emergency returns the new status
ScanReturn ==
    /\ nt.pc = "loop"
    /\ nt.idx = Len(nt.list)
    /\ nt' = [nt EXCEPT !.pc = "done",
                        !.new_status = IF nt.kind = "emergency"
                                       THEN new_status(nt.current_status, nt.emergency)
                                       ELSE @]
    /\ UNCHANGED <<proc, crash, mvars, env, fc, boot, dl, receiver_position, scan, tally, ranges>>

InitNotify ==
    /\ proc = "running"
    /\ crash = [exc |-> "none", via |-> "none"]
    /\ cycle = 1
    /\ completed = 0
    /\ i = 0
    /\ th = [t \in Threads |-> IF t = "main" THEN Frame("loop", 0) ELSE Frame("idle", 0)]
    /\ gpio = "claimed"
    /\ epd = "boot"
    /\ sinkBroken = FALSE
    /\ lastSig = "none"
    /\ sd_left = "no"
    /\ env \in SlackEnvironments
    /\ boot = "process"
    /\ dl = NoDownload(0)
    /\ receiver_position \in {origin_of(ReceiverBody), origin_of(EmptyJson)}
    /\ scan = NoScan
    /\ tally = NoTally
    /\ ranges = NoRanges
    /\ \E kind \in ScanKinds, body \in AircraftBodies :
         /\ "aircraft" \in DOMAIN body
         /\ \E slug \in IF kind = "emergency" THEN {"OK", "NEEDS ATTENTION"} ELSE {""} :
              nt = [NewScanLoop(kind, body.aircraft) EXCEPT !.current_status = slug]
    /\ fc = NoFilterCall

NextNotify ==
    \/ ScanNext
    \/ SendNotification
    \/ ScanReturn

SpecNotify == InitNotify /\ [][NextNotify]_vars

----------------------------------------------------------------------------
(* The aircraft filter on its own *)

\* get_aircrafts(pos, mode, threshold, raw), its fetch having given fc.r
ApplyFilter ==
    /\ fc.pc = "called"
    /\ fc' = [fc EXCEPT !.pc = "returned",
                        !.result = get_aircrafts(fc.r, fc.pos, fc.mode,
                                                 fc.threshold, fc.raw)]
    /\ UNCHANGED <<proc, crash, mvars, env, nt, boot, dl, receiver_position,
                   scan, tally, ranges>>

InitFilter ==
    /\ proc = "running"
    /\ crash = [exc |-> "none", via |-> "none"]
    /\ cycle = 1
    /\ completed = 0
    /\ i = 0
    /\ th = [t \in Threads |-> IF t = "main" THEN Frame("loop", 0) ELSE Frame("idle", 0)]
    /\ gpio = "claimed"
    /\ epd = "boot"
    /\ sinkBroken = FALSE
    /\ lastSig = "none"
    /\ sd_left = "no"
    /\ env = DefaultEnv
    /\ boot = "process"
    /\ dl = NoDownload(0)
    /\ receiver_position = origin_of(ReceiverBody)
    /\ scan = NoScan
    /\ tally = NoTally
    /\ ranges = NoRanges
    /\ nt = NoScanLoop
    /\ \E r \in FilterResponses, pos \in BOOLEAN, mode \in {"adsb", "mlat"},
          threshold \in Thresholds, raw \in BOOLEAN :
         fc = [NoFilterCall EXCEPT !.pc = "called", !.r = r, !.pos = pos,
                                   !.mode = mode, !.threshold = threshold,
                                   !.raw = raw]

NextFilter == ApplyFilter

SpecFilter == InitFilter /\ [][NextFilter]_vars

----------------------------------------------------------------------------
(* Properties *)

InRefresh(t) == th[t].pc \in TryPcs
InShutdown(t) == th[t].pc = "shutdown"

\* the statements of refresh() after the __clear call
AfterClear == {"r_counts", "r_range", "r_display", "r_return"}

\* C1: the cycle counter starts at 1 and is one more than the number of normal
\* cycles completed so far, and the normal cycle in progress runs with that
\* value: the n-th completed normal cycle ran with n and left the counter at n+1.
C1_CounterCountsCompletedCycles ==
    /\ cycle = completed + 1
    /\ InRefresh("main") => th["main"].arg = cycle

C1_Witness == completed = 2 /\ cycle = 3 /\ th["main"].pc = "sleep"

\* C2: a step of the event thread, a forced refresh included, leaves the cycle
\* counter alone, and the counter changes only when the main loop's own refresh
\* returns.
C2_ForcedRefreshKeepsCounter ==
    [][ /\ (th'["cb"] # th["cb"] => cycle' = cycle)
        /\ (cycle' # cycle => th["main"].pc = "r_return" /\ th["main"].arg = cycle)
      ]_vars

\* a forced refresh has drawn its image and is about to return while the second
\* normal cycle is in its scan: the counter is still 2
C2_Witness ==
    /\ th["cb"].pc = "r_return" /\ th["cb"].arg = 0
    /\ th["main"].pc = "r_scan" /\ th["main"].arg = 2 /\ cycle = 2

\* C3 as claimed: a forced refresh (cycle argument 0) has instructed a full clear
\* once it is past its __clear call.
C3_ForcedRefreshClears ==
    \A t \in Threads :
        (th[t].pc \in AfterClear /\ th[t].arg = 0) => th[t].cleared

\* C3 amended: a refresh instructs the full clear exactly when its cycle argument
\* is 1; a forced refresh (argument 0) draws without a clear.
C3_ClearOnlyOnCycleOne ==
    \A t \in Threads :
        th[t].pc \in AfterClear =>
            /\ th[t].cleared <=> (th[t].arg = 1)
            /\ th[t].arg = 0 => ~th[t].cleared

C3_Witness ==
    /\ th["cb"].pc = "r_display" /\ th["cb"].arg = 0 /\ ~th["cb"].cleared
    /\ th["main"].pc = "r_display" /\ th["main"].arg = 1 /\ th["main"].cleared

\* C4 as claimed: a cycle whose emergency scan found the aircraft resource
\* unavailable has the emergency count 666 and goes on to complete.
C4_TelemetryLossYieldsSentinel ==
    \A t \in Threads :
        th[t].feed = "unavailable" =>
            th[t].emergency = TelemetryLoss /\ th[t].pc # "dead"

\* C5 as claimed: the process ends abnormally only through an I/O fault of the
\* rendering sink; no fetch failure ends the refresh loop.  (The KeyError of a
\* status entry without message is not a fetch failure, and is left aside.)
C5_OnlySinkFaultEndsLoop ==
    (proc = "crashed" /\ crash.exc # "KeyError") => crash.exc = "IOError"

\* C6 as claimed: the shutdown that refresh() starts on a sink I/O failure never
\* ends as a crash.
C6_SinkFaultShutsDownGracefully ==
    ~(proc = "crashed" /\ crash.via = "except")

\* C7 as claimed: the event thread never runs a forced refresh, a clear or a
\* shutdown while the main loop is inside refresh() or __shutdown.
C7_OneOperationInFlight ==
    ~( (InRefresh("main") \/ InShutdown("main")) /\ th["cb"].pc # "idle" )

\* C8 as claimed: once a __shutdown has ended, the main loop starts no further
\* refresh cycle and its refresh touches the display no more.
C8_ShutdownEndsProcess ==
    [][ sd_left # "no" =>
          /\ ~(th["main"].pc = "loop" /\ th'["main"].pc = "r_status")
          /\ ~(th["main"].pc \in {"r_clear", "r_display"} /\ th'["main"] # th["main"]
                /\ epd' # epd)
      ]_vars

\* C9 as claimed: delivering SIGHUP leaves the process running and the display
\* as it was.
C9_HangupIsIgnored ==
    [][ (lastSig' = "SIGHUP" /\ lastSig # "SIGHUP") => (proc' = "running" /\ epd' = epd) ]_vars

\* C10: within one __shutdown the final clear precedes the release of the GPIO
\* pins, which precedes the exit: a shutdown that has released the pins has
\* cleared the display, sys.exit(0) is reached only by one that has released
\* them, and a process that ended with status 0 has its pins released.
C10_ShutdownOrder ==
    /\ \A t \in Threads :
          InShutdown(t) =>
            /\ th[t].sd_released => th[t].sd_cleared
            /\ shutdown_steps[th[t].sd] = "exit" => th[t].sd_released
    /\ proc = "exit0" => gpio = "released"

C10_Witness == proc = "exit0" /\ gpio = "released" /\ epd = "0xFF"

\* C11: the call the event thread makes for a pin event is the one of its
\* channel and no other: 5 a clear in black, 6 a clear in white, 13 a refresh
\* with cycle argument 0, 19 the shutdown; any other channel is rejected with
\* ValueError, the display untouched.  The clear of pins 5 and 6 leaves the
\* display in the colour of its channel or, on an I/O fault, as it was.
C11_PinsTriggerTheirOwnAction ==
    [][ /\ (th["cb"].pc = "idle" /\ th'["cb"].pc # "idle") =>
              LET f == th'["cb"] IN
              /\ f.channel \in Channels
              /\ f.channel = 5  => f.pc = "clr" /\ f.color = "0x00"
              /\ f.channel = 6  => f.pc = "clr" /\ f.color = "0xFF"
              /\ f.channel = 13 => f.pc = "r_status" /\ f.arg = 0
              /\ f.channel = 19 => f.pc = "shutdown" /\ f.via = "pin"
              /\ f.channel \notin Pins => f.pc = "reject"
              /\ epd' = epd
        /\ (th["cb"].pc = "reject" /\ th'["cb"] # th["cb"]) =>
              /\ th'["cb"].pc = "idle"
              /\ epd' = epd /\ proc' = proc /\ gpio' = gpio
        /\ (th["cb"].pc = "clr" /\ th'["cb"] # th["cb"]) =>
              /\ th["cb"].channel \in {5, 6}
              /\ epd' \in {epd, IF th["cb"].channel = 5 THEN "0x00" ELSE "0xFF"}
      ]_vars

\* the event thread is about to reject an event on pin 26 while the display
\* shows the black of an earlier pin-5 clear
C11_Witness ==
    th["cb"].pc = "reject" /\ th["cb"].channel = 26 /\ epd = "0x00"

\* C12 as claimed: no runtime failure of a fetch raises past the fetch: the
\* caller's r.json() never raises, and a fetch that download answered with False
\* hands its caller the empty mapping.
C12_FetchFailuresYieldEmptyMapping ==
    /\ ~(dl.st = "raised" /\ dl.exc \in JSONDecodeError)
    /\ (dl.st = "done" /\ dl.r = DownloadFailed) => dl.result = EmptyJson

\* C13 as claimed: no response is ever tried again, and a fetch that met a
\* non-2xx response has ended with the empty result.
C13_Non2xxNeverRetried ==
    /\ dl.retried = 0
    /\ dl.status_code \notin {0, 200} => (dl.st # "get" /\ dl.r = DownloadFailed)

\* C13 amended: an attempt that meets a response is the last one of the fetch
\* unless the response is a 413, 429 or 503 that carries Retry-After and retries
\* are left; a non-200 response that ends the fetch gives the empty result; a
\* response with status 500 always ends the fetch, with the empty result.
C13_OnlyRetryAfterIsRetried ==
    [][ (dl.st = "get" /\ dl'.attempts = dl.attempts + 1
                      /\ dl'.conn_errors = dl.conn_errors) =>
          /\ dl'.st = "get" =>
                /\ dl'.retry_after /\ dl'.status_code \in {413, 429, 503}
                /\ dl.total > 0
          /\ (dl'.st # "get" /\ dl'.status_code # 200) => dl'.r = DownloadFailed
          /\ dl'.status_code = 500 => (dl'.st = "returned" /\ dl'.r = DownloadFailed)
      ]_vars

\* the transport answered the first attempt of a fetch with ten retries with
\* status 500: the fetch returned False after that one attempt
C13_Witness ==
    /\ dl.st = "returned" /\ dl.status_code = 500 /\ dl.attempts = 1
    /\ dl.retry = 10 /\ dl.r = DownloadFailed

\* C14 as claimed: a fetch whose attempts so far all failed with a connection
\* error, and were no more than its configured retries, is still trying; and a
\* fetch that a 200 response ended returns that response, the attempts being
\* the failed ones and this one.
C14_RetriesUntilSuccess ==
    /\ (dl.attempts >= 1 /\ dl.conn_errors = dl.attempts /\ dl.attempts <= dl.retry)
            => dl.st = "get"
    /\ (dl.st = "returned" /\ dl.status_code = 200)
            => (dl.r.ok /\ dl.attempts = dl.conn_errors + dl.retried + 1)

\* C15 as claimed: a fetch makes at most its configured retries plus one
\* attempts, and one whose attempts all failed with a connection error ends
\* with the empty result and is not fatal.
C15_ExhaustedRetriesAreNotFatal ==
    /\ dl.attempts <= dl.retry + 1
    /\ dl.st = "get" => dl.attempts <= dl.retry
    /\ (dl.attempts >= 1 /\ dl.conn_errors = dl.attempts /\ dl.st # "get") =>
          /\ dl.r = DownloadFailed /\ dl.result = EmptyJson
          /\ dl.st # "raised" /\ proc = "running"

\* the hosts that make a malformed URL: no scheme, no network location, or a
\* port that is not a number
MalformedHosts ==
    {"piaware.local", "http://", "127.0.0.1:8754", "http://piaware.local:80a"}

\* C16 as claimed: a fetch of a malformed URL makes no attempt and ends by
\* raising RuntimeError, never with a result; the refresh loop does not begin
\* when the telemetry host is malformed.
C16_MalformedUrlRaises ==
    /\ (dl.caller # "none" /\ dl.url.host \in MalformedHosts) =>
          /\ dl.attempts = 0
          /\ dl.st \in {"check", "raised"}
          /\ dl.st = "raised" => dl.exc = "RuntimeError"
    /\ boot = "process" => PIAWARE_HOST \notin MalformedHosts

\* C17 as claimed: with PIAWARE_HOST not set, setup() raises: the process makes
\* no fetch and the refresh loop does not begin.
C17_UnsetHostStopsSetup ==
    env.PIAWARE_HOST = None => (boot = "setup" /\ dl.caller = "none")

\* the records of a list that squawk one of the three emergency codes, the
\* emergency notifications of a scan, and those about one aircraft
Squawkers(list) ==
    {j \in DOMAIN list : /\ "squawk" \in DOMAIN list[j]
                         /\ list[j].squawk \in {"7500", "7600", "7700"}}

EmergencyNotes(notes) == {n \in DOMAIN notes : notes[n].mode = "emergency"}

EmergencyNotesAbout(notes, hex) ==
    {n \in EmergencyNotes(notes) : notes[n].icao_reg = hex}

\* without a position-age field, or with a position age above the threshold
Unpositioned(aircraft) ==
    "seen_pos" \notin DOMAIN aircraft \/ aircraft.seen_pos > 120

\* C18: for every aircraft list the emergency scan goes through, its count is
\* the number of records whose squawk is 7500, 7600 or 7700, and exactly one
\* notification request tagged emergency is emitted per such record; a list
\* whose squawks are all outside that set yields count 0 and no request
C18_CountAndOneRequestPerSquawker ==
    scan.k = 3 =>
        /\ scan.emergency = Cardinality(Squawkers(scan.list))
        /\ Cardinality(EmergencyNotes(scan.notes)) = Cardinality(Squawkers(scan.list))
        /\ \A j \in Squawkers(scan.list) :
             Cardinality(EmergencyNotesAbout(scan.notes, scan.list[j].hex)) = 1
        /\ Squawkers(scan.list) = {} => (scan.emergency = 0 /\ scan.notes = << >>)

\* a scan of a list with one aircraft on 7700 that has a position, and one on 7000
C18_Witness ==
    /\ scan.k = 3
    /\ scan.list = <<AcEmergency, AcNormal>>
    /\ scan.emergency = 1
    /\ Len(scan.notes) = 1
    /\ scan.notes[1].mode = "emergency"
    /\ scan.notes[1].squawk = "7700"
    /\ scan.notes[1].distance # unknown_distance

\* C19 as stated: an aircraft that squawks an emergency code but has no
\* position-age field, or a position age above the threshold, is not counted
\* by the emergency scan and triggers no emergency notification
C19_ScanSkipsUnpositioned ==
    scan.k = 3 =>
        /\ scan.emergency =
             Cardinality({j \in Squawkers(scan.list) : ~Unpositioned(scan.list[j])})
        /\ \A j \in Squawkers(scan.list) :
             Unpositioned(scan.list[j]) =>
                 EmergencyNotesAbout(scan.notes, scan.list[j].hex) = {}

\* C19, amended: the emergency scan runs over the raw, unfiltered aircraft
\* list: an aircraft that squawks an emergency code without a position-age
\* field, or with a position age above the threshold, is counted and triggers
\* one emergency notification
C19_ScanCountsUnpositioned ==
    scan.k = 3 =>
        /\ scan.emergency >=
             Cardinality({j \in Squawkers(scan.list) : Unpositioned(scan.list[j])})
        /\ \A j \in Squawkers(scan.list) :
             Unpositioned(scan.list[j]) =>
                 \E n \in EmergencyNotesAbout(scan.notes, scan.list[j].hex) :
                     /\ scan.notes[n].squawk = scan.list[j].squawk
                     /\ ("lat" \notin DOMAIN scan.list[j]
                            => scan.notes[n].distance = unknown_distance)

\* a scan of a list whose only squawker has no position at all
C19_Witness ==
    /\ scan.k = 3
    /\ scan.list = <<AcHijackNoPos, AcNormal>>
    /\ scan.emergency = 1
    /\ scan.notes[1].icao_reg = "a1b2c3"
    /\ scan.notes[1].distance = unknown_distance

\* C20: no suppression across cycles and no duplication within a cycle: the
\* emergency notifications about an aircraft are one per emergency scan that
\* observed it squawking, and an aircraft that squawks an emergency code in
\* every aircraft fetch of k completed refreshes has triggered exactly k
C20_OneRequestPerCycle ==
    /\ tally.alerted = tally.seen
    /\ (dl.st = "none" /\ dl.k = Len(RefreshFetches) /\ tally.steady)
           => tally.alerted = tally.refreshes

\* two completed refreshes, the aircraft squawking in every fetch of both
C20_Witness ==
    /\ dl.st = "none"
    /\ dl.k = Len(RefreshFetches)
    /\ tally.steady
    /\ tally.refreshes = 2
    /\ tally.alerted = 2

\* the banner as the status line shows it
SquawkBanner(n) ==
    CASE n = 1 -> "!!! SQUAWK 7x00 (Count: 1) !!!"
      [] n = 2 -> "!!! SQUAWK 7x00 (Count: 2) !!!"
      [] OTHER -> "!!! SQUAWK 7x00 (Count: " \o ToString(n) \o ") !!!"

\* C21: every emergency scan that returns leaves the prior status string
\* unchanged when its count is 0, and leaves the banner with the count n when
\* the count is at least 1, whatever the prior status was ("OK", "OK, fr24:
\* ...", "NEEDS ATTENTION")
C21_BannerOverridesStatus ==
    [][ \A t \in Threads :
          (th[t].pc = "r_scan" /\ th'[t].pc = "r_clear") =>
              /\ th'[t].emergency = 0 => th'[t].status_slug = th[t].status_slug
              /\ th'[t].emergency >= 1 =>
                    th'[t].status_slug = SquawkBanner(th'[t].emergency) ]_vars

\* a scan that counted two emergencies has replaced the status by the banner
C21_Witness ==
    /\ th["main"].pc = "r_clear"
    /\ th["main"].emergency = 2
    /\ th["main"].status_slug = "!!! SQUAWK 7x00 (Count: 2) !!!"

\* the notifications of a scan tagged mode about the aircraft with identifier hex
NotesAbout(notes, mode, hex) ==
    {n \in DOMAIN notes : notes[n].mode = mode /\ upper(notes[n].icao_reg) = upper(hex)}

\* kept by the position filter of the adsb mode
Positioned(aircraft) ==
    "seen_pos" \in DOMAIN aircraft /\ aircraft.seen_pos <= 120

\* on the identifier watchlist, whatever the case of the identifier
WatchedIcao(aircraft) == upper(aircraft.hex) \in {"3EA12C", "3F5D91", "3E854F"}

\* C22: in one refresh every aircraft of the position-filtered set whose
\* identifier is on the ICAO watchlist, in any case, emits exactly one request
\* tagged icao, every other aircraft emits none, the callsign scan, whose table
\* is empty, emits none, and no other fetch of the refresh emits watchlist
\* requests
C22_OneRequestPerWatchedAircraft ==
    /\ \A n \in DOMAIN scan.notes : scan.notes[n].mode # "registration"
    /\ scan.k # 5 => \A n \in DOMAIN scan.notes : scan.notes[n].mode # "icao"
    /\ scan.k = 5 =>
         /\ \A n \in DOMAIN scan.notes : scan.notes[n].mode = "icao"
         /\ Len(scan.notes) = Cardinality({j \in DOMAIN scan.list :
                 Positioned(scan.list[j]) /\ WatchedIcao(scan.list[j])})
         /\ \A j \in DOMAIN scan.list :
              Cardinality(NotesAbout(scan.notes, "icao", scan.list[j].hex)) =
                  IF Positioned(scan.list[j]) /\ WatchedIcao(scan.list[j]) THEN 1 ELSE 0

\* the count with position of a list with a watched aircraft (identifier in
\* lower case) and an unwatched one has sent one icao request
C22_Witness ==
    /\ scan.k = 5
    /\ scan.list = <<AcNormal, AcMlat>>
    /\ Len(scan.notes) = 1
    /\ scan.notes[1].mode = "icao"
    /\ scan.notes[1].icao_reg = "3E854F"

\* C23: every notification request of a scan is about a record of the scanned
\* list, carries the distance "unknown" exactly when that record lacks lat or
\* lon and otherwise the distance between the cached receiver origin and the
\* record's position, and carries the trimmed flight field as callsign, or
\* "unknown" when the record has no flight field
C23_DistanceAndCallsign ==
    \A n \in DOMAIN scan.notes :
        \E j \in DOMAIN scan.list :
            LET a == scan.list[j]
                note == scan.notes[n] IN
            /\ upper(note.icao_reg) = upper(a.hex)
            /\ (note.distance = unknown_distance) <=>
                   ("lat" \notin DOMAIN a \/ "lon" \notin DOMAIN a)
            /\ ("lat" \in DOMAIN a /\ "lon" \in DOMAIN a) =>
                   note.distance = [km |-> "haversine", pos1 |-> receiver_position,
                                    pos2 |-> [latitude |-> a.lat, longitude |-> a.lon]]
            /\ note.callsign = IF "flight" \in DOMAIN a THEN trim(a.flight)
                                                         ELSE "unknown"

\* a watched aircraft with lat but no lon: distance unknown, callsign trimmed
C23_Witness ==
    /\ scan.k = 5
    /\ scan.list = <<AcVipNoLon, AcVipStale>>
    /\ Len(scan.notes) = 1
    /\ scan.notes[1].distance = unknown_distance
    /\ scan.notes[1].callsign = "GAF902"
    /\ receiver_position = [latitude |-> 51, longitude |-> 7]

\* the aircraft of a list that a loop of kind notifies about
Alerting(kind, list) ==
    IF kind = "emergency"
    THEN Squawkers(list)
    ELSE {j \in DOMAIN list : Positioned(list[j]) /\ WatchedIcao(list[j])}

\* C24: the notifier never propagates a failure: a send during which the
\* transport raised is logged as not delivered, without credentials every send
\* is not delivered and makes no call to the transport, no loop is left by an
\* exception, and a loop that is through its list has made one send per
\* alerting aircraft, whatever the earlier sends gave
C24_NotifierNeverPropagates ==
    /\ nt.pc # "raised"
    /\ \A n \in DOMAIN nt.log :
         /\ "exception" \in DOMAIN nt.log[n].outcome => ~nt.log[n].delivered
         /\ (env.SLACK_BOT_TOKEN = "None" \/ env.SLACK_CHANNEL = "None") =>
                (~nt.log[n].delivered /\ nt.log[n].outcome = [skipped |-> TRUE])
    /\ nt.pc = "done" => Len(nt.log) = Cardinality(Alerting(nt.kind, nt.list))

\* an emergency scan of two squawkers: the first send failed in the transport,
\* the second was delivered
C24_Witness ==
    /\ nt.pc = "done"
    /\ nt.kind = "emergency"
    /\ Len(nt.log) = 2
    /\ "exception" \in DOMAIN nt.log[1].outcome
    /\ ~nt.log[1].delivered
    /\ nt.log[2].delivered

\* C25: the receiver position is written once, by setup: from then on it is a
\* position and no step changes it, and no refresh fetches the receiver
\* resource: neither a download of receiver.json begins nor does
\* get_receiver_position() miss its cache
C25_ReceiverPositionWrittenOnce ==
    [][ /\ boot \in {"process", "shutdown"} =>
             /\ receiver_position' = receiver_position
             /\ dl'.caller # "get_receiver"
             /\ ~tally'.refetched
        /\ boot' \in {"process", "shutdown"} =>
             (receiver_position' = [latitude |-> 51, longitude |-> 7]
                \/ receiver_position' = [latitude |-> 0, longitude |-> 0]) ]_vars

\* two refreshes completed after a setup that stored the position of receiver.json
C25_Witness ==
    /\ boot = "process"
    /\ tally.refreshes = 2
    /\ receiver_position = [latitude |-> 51, longitude |-> 7]
    /\ ~tally.refetched

\* the line of a status field, and its fixed fallback string
LineOf(lines, f) ==
    CASE f = "system_uptime" -> lines.uptime
      [] f = "time"          -> lines.time
      [] f = "gps"           -> lines.gps
      [] f = "radio"         -> lines.radio
      [] f = "piaware"       -> lines.piaware

Fallback(f) ==
    CASE f = "system_uptime" -> "Failed API Call"
      [] f = "time"          -> "!!! Failed to get System Time"
      [] f = "gps"           -> "!!! Failed to get GPS Status"
      [] f = "radio"         -> "!!! Failed to get Radio Status"
      [] f = "piaware"       -> "!!! Failed to get PiAware Status"

\* C26: after the emergency scan of a refresh, the line of every field that
\* the status resource lacks is its fallback string and, with emergency count
\* 0, the slug is "NEEDS ATTENTION"; with all five fields present and
\* emergency count 0 the slug is not "NEEDS ATTENTION"
C26_MissingFieldNeedsAttention ==
    \A t \in Threads :
        th[t].pc = "r_clear" =>
            /\ \A f \in {"system_uptime", "time", "gps", "radio", "piaware"} :
                 f \notin DOMAIN th[t].status =>
                     /\ LineOf(th[t].lines, f) = Fallback(f)
                     /\ th[t].emergency = 0 => th[t].status_slug = "NEEDS ATTENTION"
            /\ ({"system_uptime", "time", "gps", "radio", "piaware"}
                    \subseteq DOMAIN th[t].status /\ th[t].emergency = 0)
                   => th[t].status_slug # "NEEDS ATTENTION"

\* a refresh whose status resource has no gps entry, and no emergency
C26_Witness ==
    /\ th["main"].pc = "r_clear"
    /\ "gps" \notin DOMAIN th["main"].status
    /\ "radio" \in DOMAIN th["main"].status
    /\ th["main"].lines.gps = "!!! Failed to get GPS Status"
    /\ th["main"].emergency = 0
    /\ th["main"].status_slug = "NEEDS ATTENTION"

\* C27 as stated: no status payload is fatal, also not one whose gps, radio or
\* piaware entry carries no message: the process is never ended by the
\* exception of reading a status field
C27_StatusFaultsNeverFatal ==
    ~(proc = "crashed" /\ crash.exc = "KeyError")

\* the age field the adsb filter looks at
AgeField(pos) == IF pos THEN "seen_pos" ELSE "seen"

\* C28: in mode adsb the count get_aircrafts returns is the number of records
\* that carry the relevant age field (seen_pos with pos, seen without) with an
\* age less than or equal to the threshold: for a single record it is 1 if and
\* only if the record has the field and its age is at most the threshold
C28_AdsbFilterKeepsFreshRecords ==
    (fc.pc = "returned" /\ ~fc.raw /\ fc.mode = "adsb") =>
        /\ fc.result.type = "int"
        /\ fc.result.val =
             Cardinality({j \in DOMAIN aircraft_of(fc.r) :
                 /\ AgeField(fc.pos) \in DOMAIN aircraft_of(fc.r)[j]
                 /\ aircraft_of(fc.r)[j][AgeField(fc.pos)] <= fc.threshold})

\* a record whose position age equals the threshold is kept
C28_Witness ==
    /\ fc.pc = "returned"
    /\ ~fc.raw /\ fc.mode = "adsb" /\ fc.pos
    /\ fc.threshold = 120
    /\ aircraft_of(fc.r) = <<AcMlat>>
    /\ fc.result.val = 1

\* C29 as stated: with raw set get_aircrafts returns the raw mapping for every
\* fetch outcome, also a failed fetch and a body without "aircraft", never a count
C29_RawAlwaysReturnsMapping ==
    (fc.pc = "returned" /\ fc.raw) => fc.result.type = "dict"

\* the main loop is in its sleep phase, the interval not yet over
Sleeping == proc = "running" /\ th["main"].pc = "sleep" /\ i < 300

\* C30: while the main loop sleeps, a request does not wait for the sleep to
\* end: a registered signal puts its handler on the main thread at once, a
\* pin event is dispatched to the event thread at once, and the clear, forced
\* refresh or shutdown the event thread is in takes its next step, all with
\* the sleep counter where it is
C30_RequestsServedDuringSleep ==
    Sleeping =>
        /\ \A s \in {"SIGINT", "SIGQUIT", "SIGTERM"} :
             ENABLED (Signal(s) /\ th'["main"].pc = "shutdown" /\ i' = i)
        /\ (gpio = "claimed" /\ th["cb"].pc = "idle") =>
             /\ ENABLED (process_interrupt(5) /\ th'["cb"].pc = "clr" /\ i' = i)
             /\ ENABLED (process_interrupt(6) /\ th'["cb"].pc = "clr" /\ i' = i)
             /\ ENABLED (process_interrupt(13) /\ th'["cb"].pc = "r_status" /\ i' = i)
             /\ ENABLED (process_interrupt(19) /\ th'["cb"].pc = "shutdown" /\ i' = i)
        /\ th["cb"].pc = "clr" => ENABLED (ClearDisplay /\ i' = i)
        /\ th["cb"].pc = "r_status" => ENABLED (RefreshStatus("cb") /\ i' = i)
        /\ (th["cb"].pc = "shutdown" /\ th["cb"].sd = 1)
              => ENABLED (ShutdownClear("cb") /\ i' = i)

\* half way through the sleep, pin 13 has just been dispatched
C30_Witness ==
    /\ Sleeping
    /\ i = 150
    /\ th["cb"].pc = "r_status"
    /\ th["cb"].channel = 13

\* C31: among the cycles of the main loop exactly the first one, which runs
\* with counter value 1, instructs the full-surface clear in its __clear call,
\* which comes before anything is drawn; a later cycle, with counter value 2
\* or more, passes __clear with the display's content left as it is.
C31_OnlyFirstNormalCycleClears ==
    [][ (th["main"].pc = "r_clear" /\ th'["main"].pc = "r_counts") =>
          /\ th'["main"].cleared <=> (completed = 0)
          /\ completed = 0 => (cycle = 1 /\ epd' = "0xFF")
          /\ completed >= 1 => (cycle >= 2 /\ epd' = epd)
      ]_vars

\* the third normal cycle is about to draw over the image of the second one,
\* with no clear
C31_Witness ==
    /\ th["main"].pc = "r_display" /\ th["main"].arg = 3
    /\ completed = 2
    /\ ~th["main"].cleared
    /\ epd = "image"

\* the notifications that carry a measured distance
Measured(notes) == {j \in DOMAIN notes : notes[j].distance.km = "haversine"}

\* C32: when setup() gets a receiver mapping without lat or lon, or none
\* because the fetch failed, the stored origin is (0, 0); once it is (0, 0) no
\* step of a later cycle changes it, whatever the receiver resource would
\* answer then, and every distance a later cycle measures, for a
\* notification or for one of the two ranges, starts from (0, 0).
C32_FallbackOriginIsKept ==
    [][ /\ (boot = "receiver" /\ boot' = "process"
              /\ ~({"lat", "lon"} \subseteq DOMAIN dl.result))
           => receiver_position' = [latitude |-> 0, longitude |-> 0]
        /\ (boot = "process"
              /\ receiver_position = [latitude |-> 0, longitude |-> 0])
           => /\ receiver_position' = [latitude |-> 0, longitude |-> 0]
              /\ \A j \in Measured(scan'.notes) :
                   scan'.notes[j].distance.pos1 = [latitude |-> 0, longitude |-> 0]
              /\ (dl.st = "done" /\ dl.k = 7 /\ dl'.st = "none") =>
                   ranges'.min_range = kilometers(aircraft_range(dl.result,
                       [latitude |-> 0, longitude |-> 0], "min", 120))
              /\ (dl.st = "done" /\ dl.k = 8 /\ dl'.st = "none") =>
                   ranges'.max_range = kilometers(aircraft_range(dl.result,
                       [latitude |-> 0, longitude |-> 0], "max", 120))
      ]_vars

\* the second refresh after a setup that found no coordinates: its emergency
\* scan has measured a distance from (0, 0)
C32_Witness ==
    /\ boot = "process"
    /\ receiver_position = [latitude |-> 0, longitude |-> 0]
    /\ tally.refreshes = 1
    /\ scan.k = 3
    /\ Measured(scan.notes) # {}

\* C33 as claimed: the fetch of monitor.json has its own budget of 2 retries,
\* whatever PIAWARE_RETRIES says, and the budget is in force for the host it
\* asks: while it is trying, the retries left are 2 less those used, and after
\* one or two attempts that all met a connection error it is still trying.
C33_SecondaryFetchHasOwnBudget ==
    dl.caller = "get_fr24_status" =>
        /\ dl.retry = 2
        /\ dl.st = "get" => dl.total = 2 - (dl.conn_errors + dl.retried)
        /\ (dl.conn_errors \in 1..2 /\ dl.conn_errors = dl.attempts) => dl.st = "get"

\* a refresh whose eight fetches were all consumed: the image is complete
RefreshDrawn == boot = "process" /\ dl.st = "none" /\ dl.k = Len(RefreshFetches)

\* the aircraft of a list that Helpers.distance measures
InRange(list) ==
    {j \in DOMAIN list : /\ {"lat", "lon", "seen_pos"} \subseteq DOMAIN list[j]
                         /\ list[j].seen_pos <= 120}

\* the tenths of a kilometre from the receiver to an aircraft
RenderedDistance(aircraft) ==
    kilometers(haversine_distance(receiver_position,
                                  [latitude |-> aircraft.lat, longitude |-> aircraft.lon]))

\* C34 as claimed: on a complete image the two ranges come from one snapshot
\* of the feed: either it has an aircraft in range, both texts are distances
\* of its aircraft in range and the minimum is at most the maximum, or it has
\* none, the maximum is 0 and the minimum is what sys.maxsize renders to.
C34_RangesOfOneSnapshot ==
    RefreshDrawn =>
        \E b \in AircraftBodies :
            /\ "aircraft" \in DOMAIN b
            /\ IF InRange(b.aircraft) # {}
               THEN /\ \E j \in InRange(b.aircraft) :
                         ranges.min_range = RenderedDistance(b.aircraft[j])
                    /\ \E j \in InRange(b.aircraft) :
                         ranges.max_range = RenderedDistance(b.aircraft[j])
                    /\ ranges.min_range <= ranges.max_range
               ELSE /\ ranges.max_range = 0
                    /\ ranges.min_range = 21474836

\* C35: the count and the status an emergency scan returns are set by its
\* list alone: whatever each send gave (delivered, refused, failed in the
\* transport, or skipped for want of credentials) the count so far is the
\* number of squawkers gone through, and the scan returns the banner with the
\* number of squawkers of the list, or the status it was given when there is
\* none.
C35_CountIgnoresDelivery ==
    nt.kind = "emergency" =>
        /\ nt.pc \in {"loop", "send", "done"} =>
              nt.emergency = Cardinality({j \in Squawkers(nt.list) : j <= nt.idx})
        /\ nt.pc = "done" =>
              nt.new_status = IF Squawkers(nt.list) = {}
                              THEN nt.current_status
                              ELSE SquawkBanner(Cardinality(Squawkers(nt.list)))

\* a scan of two squawkers with both credentials set: the first notification
\* failed in the transport, the second was refused by the service, and the
\* banner over "NEEDS ATTENTION" counts both
C35_Witness ==
    /\ nt.pc = "done"
    /\ nt.kind = "emergency"
    /\ nt.current_status = "NEEDS ATTENTION"
    /\ Len(nt.log) = 2
    /\ "exception" \in DOMAIN nt.log[1].outcome
    /\ nt.log[2].outcome = [ok |-> FALSE]
    /\ nt.emergency = 2
    /\ nt.new_status = "!!! SQUAWK 7x00 (Count: 2) !!!"

====
